---------------------------- MODULE Spec2Model ----------------------------
(***************************************************************************)
(* A model of the NextGen DataOps backend:                                 *)
(*   - NLtoVizAgent.generate_viz_params, its prompt construction and its   *)
(*     parameter validation        (agents/llm/nl_to_viz_agent.py)         *)
(*   - NLtoSQLAgent.generate_sql_query and _parse_and_validate_sql, driven *)
(*     by generate_query_endpoint and execute_query_endpoint               *)
(*                                 (agents/llm/nl_to_sql_agent.py, app.py) *)
(*   - CleaningAgent.apply_cleaning_steps and suggest_cleaning_steps       *)
(*                                 (agents/cleaning_agent.py)              *)
(*   - FeatureEngineeringAgent.apply_features                              *)
(*                                 (agents/feature_engineering_agent.py)   *)
(*   - PreprocessingAgent.profile and _perform_dbscan                      *)
(*                                 (agents/preprocessing_agent.py)         *)
(*   - apply_cleaning_endpoint, apply_features_endpoint and                *)
(*     download_query_result_csv   (app.py, agents/database_agent.py)      *)
(*                                                                         *)
(* Each part has its own specification (SpecViz, SpecSql, SpecCleaning,    *)
(* SpecValidate for _parse_and_validate_sql on its own, SpecParams for the *)
(* checks on a parsed plot object, SpecApply for the two apply operations, *)
(* SpecEndpoint for the apply requests around them, SpecProfile,           *)
(* SpecSuggest) in which the variables of the other parts stay at their    *)
(* initial value.                                                          *)
(***************************************************************************)
EXTENDS Integers, Sequences, FiniteSets, TLC

VARIABLES
    \* ---- NLtoVizAgent.generate_viz_params ----
    vizPc,            \* "idle" | "loop" | "done": position in generate_viz_params
    attempt,          \* the loop variable attempt
    last_error,       \* local last_error
    last_attempt_json,\* local last_attempt_json
    vizCalls,         \* number of execute_llm_completion calls of this invocation
    vizTrace,         \* one record per attempt made: prompt sent, outcome
    vizResult,        \* the (params, error) tuple returned
    \* ---- SQL translation: session, request in flight ----
    sqlPc,            \* "idle" | "exec" | "regen" | "done"
    sqlEndpoint,      \* which endpoint the request in flight (or last) belongs to
    session,          \* last_nl_query, last_generated_sql, last_query_error
    sql_query_to_execute, \* local of execute_query_endpoint
    sqlAttempt,       \* local attempt of execute_query_endpoint
    db_error_feedback,\* local of execute_query_endpoint
    genCalls,         \* completion calls made by the request in flight
    storeCalls,       \* database_agent.execute_query calls of the request
    sqlTrace,         \* the generate_sql_query calls of the request
    storeTrace,       \* the SQL texts handed to database_agent.execute_query
                      \* by the request, with what the store answered
    sqlResponse,      \* the HTTP response of the request
    \* ---- _parse_and_validate_sql applied to one text ----
    valText,          \* the argument raw_sql
    valResult,        \* the (sql, error) tuple returned, once it has returned
    \* ---- CleaningAgent.apply_cleaning_steps ----
    clnPc,            \* "start" | "dedup" | "drop" | "remaining" | "done" | "raised"
    df,               \* the caller's DataFrame (argument df)
    actions,          \* the caller's action list (argument selected_actions)
    cleaned_df,       \* local cleaned_df
    selected_actions, \* local rebinding of selected_actions
    logs,             \* local logs
    applied_codes_for_col, \* local dict
    clnIdx,           \* index into selected_actions of the final loop
    clnOps,           \* operations performed on cleaned_df, in order
    cleaned_df_ref,   \* the object cleaned_df is bound to: "df" or "copy"
    \* ---- FeatureEngineeringAgent.apply_features ----
    featPc,           \* "idle" | "start" | "loop" | "done"
    feat_df,          \* the caller's DataFrame (argument df)
    selected_features,\* the caller's feature list
    engineered_df,    \* local engineered_df
    feat_logs,        \* local logs
    featIdx,          \* index into selected_features of the loop
    engineered_df_ref,\* the object engineered_df is bound to: "df" or "copy"
    copy_on_write,    \* whether the pandas of the build runs with copy-on-write
    \* ---- PreprocessingAgent.profile, CleaningAgent.suggest_cleaning_steps ----
    profPc,           \* "idle" | "profile" | "dbscan" | "profiled" | "clustered"
    prof_df,          \* the DataFrame given to profile or to _perform_dbscan
    dbscan_params,    \* the dict of 'eps' and 'min_samples'
    profile_report,   \* the report profile returned (the session's report)
    dbscan_results,   \* the dict a direct call of _perform_dbscan returned
    dbscanOps,        \* the scaling and clustering calls made, in order
    sugPc,            \* "idle" | "ready" | "done" | "raised"
    working_df,       \* the DataFrame given to suggest_cleaning_steps
    suggestions,      \* the list the last call of suggest_cleaning_steps returned
    sugHistory,       \* the lists returned by the calls made so far
    \* ---- NLtoVizAgent._parse_and_validate_json, the checks on the object ----
    vpParams,         \* the parsed object (local params)
    vpColumns,        \* the column names of schema_dict (local valid_columns)
    vpResult,         \* the pair returned, or pending
    \* ---- apply_cleaning_endpoint, apply_features_endpoint (app.py) ----
    epPc,             \* "idle" | "called" | "answered"
    stored_working,   \* the working dataset kept for the session (parquet)
    db_table,         \* the data loaded in the session's database table
    epResponse        \* the status answered, or "none"

vizVars == <<vizPc, attempt, last_error, last_attempt_json, vizCalls, vizTrace, vizResult>>
sqlVars == <<sqlPc, sqlEndpoint, session, sql_query_to_execute, sqlAttempt,
             db_error_feedback, genCalls, storeCalls, sqlTrace, storeTrace,
             sqlResponse>>
valVars == <<valText, valResult>>
clnVars == <<clnPc, df, actions, cleaned_df, selected_actions, logs,
             applied_codes_for_col, clnIdx, clnOps, cleaned_df_ref>>
featVars == <<featPc, feat_df, selected_features, engineered_df, feat_logs,
              featIdx, engineered_df_ref, copy_on_write>>
profVars == <<profPc, prof_df, dbscan_params, profile_report, dbscan_results, dbscanOps,
              sugPc, working_df, suggestions, sugHistory>>
vpVars == <<vpParams, vpColumns, vpResult>>
epVars == <<epPc, stored_working, db_table, epResponse>>
vars == <<vizVars, sqlVars, valVars, clnVars, featVars, profVars, vpVars, epVars>>

\* the variables of the other parts
notViz  == <<sqlVars, valVars, clnVars, featVars, profVars, vpVars,
             epVars>>
notSql  == <<vizVars, valVars, clnVars, featVars, profVars, vpVars,
             epVars>>
notVal  == <<vizVars, sqlVars, clnVars, featVars, profVars, vpVars,
             epVars>>
notCln  == <<vizVars, sqlVars, valVars, featVars, profVars, vpVars,
             epVars>>
notFeat == <<vizVars, sqlVars, valVars, clnVars, profVars, vpVars,
             epVars>>
notProf == <<vizVars, sqlVars, valVars, clnVars, featVars, vpVars,
             epVars>>
notVp   == <<vizVars, sqlVars, valVars, clnVars, featVars, profVars,
             epVars>>
notEp   == <<vizVars, sqlVars, valVars, clnVars, featVars, profVars, vpVars>>

-----------------------------------------------------------------------------
(***************************************************************************)
(* Python values.  A message (an error string) is a sequence of text       *)
(* parts: the literal pieces of an f-string and the values interpolated    *)
(* into it.  None is the empty sequence, the empty string is <<"">>.       *)
(***************************************************************************)
NoneMsg == <<>>
NoneStr == "<None>"

\* Python truthiness of an Optional[str] message
Truthy(m) == m # NoneMsg /\ m # <<"">>

\* sub in s for messages: sub occurs as a contiguous run of parts of s
MsgContains(s, sub) ==
    \E i \in 0..(Len(s) - Len(sub)) :
        \A j \in 1..Len(sub) : s[i + j] = sub[j]

-----------------------------------------------------------------------------
(***************************************************************************)
(*                    NLtoVizAgent  (nl_to_viz_agent.py)                   *)
(*                                                                         *)
(* The text returned by the completion capability is modelled by its       *)
(* shape: form says what the brace scan and json.loads make of it,       *)
(* params is the object json.loads yields for the extracted block and    *)
(* trailing says whether text follows the matching closing brace.        *)
(***************************************************************************)
SUPPORTED_PLOT_TYPES == <<"scatter", "histogram", "bar", "line", "box", "heatmap">>

MAX_RETRIES == 1

NoParams == [plot_type |-> NoneStr, x_col |-> NoneStr, y_col |-> NoneStr,
             color_col |-> NoneStr, size_col |-> NoneStr,
             aggregation |-> NoneStr, error |-> NoneStr]

\* a (params, error) tuple whose params is None
NoneParams == [isNone |-> TRUE]

NoneRaw  == [form |-> "none",  trailing |-> FALSE, params |-> NoParams]
EmptyRaw == [form |-> "empty", trailing |-> FALSE, params |-> NoParams]

RawObject(p, t) == [form |-> "object", trailing |-> t, params |-> p]

\* Python truthiness of an Optional[str] holding completion text
RawTruthy(raw) == raw.form \notin {"none", "empty"}

\* Python truthiness of a JSON scalar (None and "" are falsy)
StrTruthy(s) == s # NoneStr /\ s # ""

SeqToSet(s) == {s[i] : i \in 1..Len(s)}

Capitalize(plot_type) ==
    CASE plot_type = "scatter" -> "Scatter"
      [] plot_type = "line"    -> "Line"
      [] OTHER                 -> plot_type

VizFail(msg) == [params |-> NoneParams, error |-> msg]

\* lines 204-228: the checks made on the parsed object, in the code's order
ValidateParams(params, valid_columns) ==
    LET plot_type   == params.plot_type
        x_col       == params.x_col
        y_col       == params.y_col
        aggregation == params.aggregation
        cols_to_check == <<"x_col", "y_col", "color_col", "size_col">>
        bad == {i \in 1..Len(cols_to_check) :
                   /\ params[cols_to_check[i]] # NoneStr
                   /\ params[cols_to_check[i]] \notin SeqToSet(valid_columns)}
        firstBad == CHOOSE i \in bad : \A j \in bad : i <= j
    IN  IF StrTruthy(params.error)
          THEN VizFail(<<"LLM indicated an error: ", params.error>>)
        ELSE IF ~StrTruthy(plot_type)
          THEN VizFail(<<"LLM response missing required 'plot_type'.">>)
        ELSE IF plot_type \notin SeqToSet(SUPPORTED_PLOT_TYPES)
          THEN VizFail(<<"Unsupported plot type '", plot_type, "'. Supported: ">>
                       \o SUPPORTED_PLOT_TYPES)
        ELSE IF valid_columns = <<>>
          THEN VizFail(<<"Schema dictionary missing/invalid for column validation.">>)
        ELSE IF bad # {}
          THEN VizFail(<<"Invalid column '", params[cols_to_check[firstBad]],
                         "' for '", cols_to_check[firstBad], "'. Valid: ">>
                       \o valid_columns)
        ELSE IF plot_type = "histogram" /\ ~StrTruthy(x_col)
          THEN VizFail(<<"Histogram requires 'x_col'.">>)
        ELSE IF plot_type \in {"scatter", "line"} /\ (~StrTruthy(x_col) \/ ~StrTruthy(y_col))
          THEN VizFail(<<Capitalize(plot_type), " typically requires 'x_col' and 'y_col'.">>)
        ELSE IF plot_type = "bar" /\ ~StrTruthy(x_col)
          THEN VizFail(<<"Bar plot requires 'x_col'.">>)
        ELSE IF plot_type = "box" /\ ~StrTruthy(x_col)
          THEN VizFail(<<"Box plot typically requires 'x_col'.">>)
        ELSE IF StrTruthy(aggregation) /\ ~StrTruthy(y_col) /\ aggregation # "count"
          THEN VizFail(<<"Aggregation '", aggregation,
                         "' typically requires 'y_col' (unless 'count').">>)
        ELSE [params |-> params, error |-> NoneMsg]

\* _parse_and_validate_json, lines 151-228
ParseAndValidateJson(raw_json_str, valid_columns) ==
    IF ~RawTruthy(raw_json_str)
      THEN VizFail(<<"LLM returned an empty response.">>)
    ELSE IF raw_json_str.form = "no_brace"
      THEN VizFail(<<"LLM response does not contain a JSON object structure.">>)
    ELSE IF raw_json_str.form = "unclosed"
      THEN VizFail(<<"LLM response contains incomplete JSON object structure.">>)
    ELSE IF raw_json_str.form = "invalid_json"
      THEN VizFail(<<"LLM response contained invalid JSON structure: ", "JSONDecodeError",
                     ". Tried to parse: '", "potential_json[:100]", "...'">>)
    ELSE ValidateParams(raw_json_str.params, valid_columns)

\* the mutant of ConstructPrompt: the retry branch is never taken
ConstructPromptBlind(nl_request, schema_str, previous_params_str, error_feedback) ==
    [template |-> "initial", nl_request |-> nl_request, schema_str |-> schema_str,
     previous_params_str |-> NoneRaw, error_feedback |-> NoneMsg]

\* _construct_prompt, lines 114-138: the template chosen and the values
\* interpolated into the user message
ConstructPrompt(nl_request, schema_str, previous_params_str, error_feedback) ==
    IF RawTruthy(previous_params_str) /\ Truthy(error_feedback)
      THEN [template |-> "retry", nl_request |-> nl_request, schema_str |-> schema_str,
            previous_params_str |-> previous_params_str,
            error_feedback |-> error_feedback]
      ELSE [template |-> "initial", nl_request |-> nl_request, schema_str |-> schema_str,
            previous_params_str |-> NoneRaw, error_feedback |-> NoneMsg]

\* the schema_dict columns handed to generate_viz_params
VizSchemaColumns == <<"a", "b">>

P(pt, x, y, c, agg, err) ==
    [plot_type |-> pt, x_col |-> x, y_col |-> y, color_col |-> c,
     size_col |-> NoneStr, aggregation |-> agg, error |-> err]

\* completion texts the capability may return
RawJsonSamples ==
    { RawObject(P("histogram", "a", NoneStr, NoneStr, NoneStr, NoneStr), FALSE),
      RawObject(P("scatter", "a", "b", NoneStr, NoneStr, NoneStr), TRUE),
      RawObject(P("bar", "a", NoneStr, NoneStr, "count", NoneStr), FALSE),
      RawObject(P("pie", "a", NoneStr, NoneStr, NoneStr, NoneStr), FALSE),
      RawObject(P("scatter", "a", "zz", NoneStr, NoneStr, NoneStr), FALSE),
      RawObject(P("line", "a", NoneStr, NoneStr, NoneStr, NoneStr), FALSE),
      RawObject(P("bar", "a", NoneStr, "b", "sum", NoneStr), TRUE),
      RawObject(P(NoneStr, NoneStr, NoneStr, NoneStr, NoneStr, "Ambiguous request"), FALSE),
      [form |-> "no_brace", trailing |-> FALSE, params |-> NoParams],
      [form |-> "unclosed", trailing |-> FALSE, params |-> NoParams],
      [form |-> "invalid_json", trailing |-> TRUE, params |-> NoParams] }

\* error strings execute_llm_completion returns (llm_client.py lines 151-170)
LlmErrors ==
    { <<"LLM Rate Limit (", "azure", "). Wait & retry. Details: ", "429">>,
      <<"LLM Connection Error (", "azure", "): Check Endpoint/Network">> }

\* what execute_llm_completion may return: (content, None) with content a
\* text, None or "", or (None, error)
LlmOutcomes ==
    {[content |-> r, error |-> NoneMsg] : r \in RawJsonSamples \cup {NoneRaw, EmptyRaw}}
    \cup {[content |-> NoneRaw, error |-> e] : e \in LlmErrors}

\* lines 260-266: which branch of the if/elif/else an outcome takes
VizBranch(out, validated) ==
    IF Truthy(out.error) THEN "llm_error"
    ELSE IF RawTruthy(out.content)
      THEN (IF Truthy(validated.error) THEN "invalid" ELSE "success")
    ELSE "empty"

\* the mutant of RecordFailure: an error already recorded is kept
RecordFailureKeepFirst(branch, out, validated, prev_error, prev_json) ==
    IF Truthy(prev_error)
      THEN [last_error |-> prev_error, last_attempt_json |-> prev_json]
      ELSE CASE branch = "llm_error" ->
                  [last_error |-> out.error, last_attempt_json |-> NoneRaw]
             [] branch = "invalid" ->
                  [last_error |-> validated.error, last_attempt_json |-> out.content]
             [] OTHER ->
                  [last_error |-> <<"LLM empty content.">>, last_attempt_json |-> NoneRaw]

\* lines 260, 264, 266: what a failed attempt leaves in last_error and
\* last_attempt_json
RecordFailure(branch, out, validated, prev_error, prev_json) ==
    CASE branch = "llm_error" ->
           [last_error |-> out.error, last_attempt_json |-> NoneRaw]
      [] branch = "invalid" ->
           [last_error |-> validated.error, last_attempt_json |-> out.content]
      [] OTHER ->
           [last_error |-> <<"LLM empty content.">>, last_attempt_json |-> NoneRaw]

\* the mutant of VizLoopContinues: one iteration too many
VizLoopContinuesOffByOne(k) ==
    /\ k + 1 \in 0..(MAX_RETRIES + 1)
    /\ ~(k > MAX_RETRIES)

\* lines 249 and 268: after a failed attempt k the loop goes on iff
\* range(MAX_RETRIES + 1) has a next value and the break is not taken
VizLoopContinues(k) ==
    /\ k + 1 \in 0..MAX_RETRIES
    /\ ~(k >= MAX_RETRIES)

\* the mutant of VizStops: the success branch does not return
VizStopsOnlyAtBudget(branch, k) == ~VizLoopContinues(k)

\* lines 265 and 268: the attempt ends the invocation
VizStops(branch, k) == branch = "success" \/ ~VizLoopContinues(k)

\* line 271
VizExhausted(err) ==
    VizFail(<<"Failed after retries. Last error: ">>
            \o (IF Truthy(err) THEN err ELSE <<"Unknown failure.">>))

VizPending == [pending |-> TRUE]

InitViz ==
    /\ vizPc = "idle"
    /\ attempt = 0
    /\ last_error = NoneMsg
    /\ last_attempt_json = NoneRaw
    /\ vizCalls = 0
    /\ vizTrace = <<>>
    /\ vizResult = VizPending

\* generate_viz_params up to the loop, lines 243-247
VizBegin(clientAvailable, inputsOk) ==
    /\ UNCHANGED notViz
    /\ vizPc = "idle"
    /\ IF ~clientAvailable
         THEN /\ vizPc' = "done"
              /\ vizResult' = VizFail(<<"LLM client function not available.">>)
       ELSE IF ~inputsOk
         THEN /\ vizPc' = "done"
              /\ vizResult' = VizFail(<<"Missing input(s).">>)
       ELSE /\ vizPc' = "loop"
            /\ vizResult' = VizPending
    /\ attempt' = 0
    /\ last_error' = NoneMsg
    /\ last_attempt_json' = NoneRaw
    /\ vizCalls' = 0
    /\ vizTrace' = <<>>

\* one iteration of the loop, lines 249-268, and the return that ends it
\* (line 265 or line 271)
VizAttempt(out) ==
    /\ UNCHANGED notViz
    /\ vizPc = "loop"
    /\ LET is_retry  == attempt > 0
           messages  == ConstructPrompt("q", "schema", last_attempt_json, last_error)
           validated == ParseAndValidateJson(out.content, VizSchemaColumns)
           branch    == VizBranch(out, validated)
           rec       == RecordFailure(branch, out, validated, last_error, last_attempt_json)
           newErr    == IF branch = "success" THEN last_error ELSE rec.last_error
           newJson   == IF branch = "success" THEN last_attempt_json
                                              ELSE rec.last_attempt_json
           stops     == VizStops(branch, attempt)
       IN  /\ vizCalls' = vizCalls + 1
           /\ vizTrace' = Append(vizTrace,
                  [attempt |-> attempt, messages |-> messages,
                   temperature |-> IF is_retry THEN "0.3" ELSE "0.2",
                   raw_json_str |-> out.content, llm_error |-> out.error,
                   branch |-> branch, validated |-> validated,
                   last_error |-> newErr])
           /\ last_error' = newErr
           /\ last_attempt_json' = newJson
           /\ IF stops
                THEN /\ vizPc' = "done"
                     /\ attempt' = attempt
                     /\ vizResult' = IF branch = "success"
                                       THEN [params |-> validated.params, error |-> NoneMsg]
                                       ELSE VizExhausted(newErr)
                ELSE /\ vizPc' = "loop"
                     /\ attempt' = attempt + 1
                     /\ vizResult' = VizPending

-----------------------------------------------------------------------------
(***************************************************************************)
(*                    NLtoSQLAgent  (nl_to_sql_agent.py)                   *)
(*                                                                         *)
(* An SQL text is a sequence of characters (one-character strings), so     *)
(* that strip, upper, startswith, find and in are computed as Python     *)
(* computes them.  None and "" are both the empty sequence: the code only  *)
(* ever tests the truthiness of an Optional[str] SQL text.                 *)
(***************************************************************************)
LowerLetters == <<"a", "b", "c", "d", "e", "f", "g", "h", "i", "j", "k", "l", "m", "n", "o", "p", "q", "r", "s", "t", "u", "v", "w", "x", "y", "z">>
UpperLetters == <<"A", "B", "C", "D", "E", "F", "G", "H", "I", "J", "K", "L", "M", "N", "O", "P", "Q", "R", "S", "T", "U", "V", "W", "X", "Y", "Z">>

IndexIn(letters, c) == CHOOSE i \in 1..Len(letters) : letters[i] = c

\* str.upper() and str.lower() on one character
UpperMap == [c \in SeqToSet(LowerLetters) |-> UpperLetters[IndexIn(LowerLetters, c)]]
LowerMap == [c \in SeqToSet(UpperLetters) |-> LowerLetters[IndexIn(UpperLetters, c)]]
UpperChar(c) == IF c \in DOMAIN UpperMap THEN UpperMap[c] ELSE c
LowerChar(c) == IF c \in DOMAIN LowerMap THEN LowerMap[c] ELSE c

Upper(s) == [i \in 1..Len(s) |-> UpperChar(s[i])]
Lower(s) == [i \in 1..Len(s) |-> LowerChar(s[i])]

Whitespace == {" ", "\n", "\t", "\r"}

\* s[n:]
DropFirst(s, n) == IF n >= Len(s) THEN <<>> ELSE SubSeq(s, n + 1, Len(s))
\* s[:-n]
DropLast(s, n) == IF n >= Len(s) THEN <<>> ELSE SubSeq(s, 1, Len(s) - n)

\* s.lstrip(chars), s.rstrip(chars), s.strip(chars)
LStripOf(s, chars) ==
    LET keep == {i \in 1..Len(s) : s[i] \notin chars}
    IN  IF keep = {} THEN <<>>
        ELSE SubSeq(s, CHOOSE i \in keep : \A j \in keep : i <= j, Len(s))
RStripOf(s, chars) ==
    LET keep == {i \in 1..Len(s) : s[i] \notin chars}
    IN  IF keep = {} THEN <<>>
        ELSE SubSeq(s, 1, CHOOSE i \in keep : \A j \in keep : i >= j)
StripOf(s, chars) == RStripOf(LStripOf(s, chars), chars)
Strip(s)  == StripOf(s, Whitespace)
LStrip(s) == LStripOf(s, Whitespace)

StartsWith(s, p) == Len(p) <= Len(s) /\ SubSeq(s, 1, Len(p)) = p
EndsWith(s, p)   == Len(p) <= Len(s) /\ SubSeq(s, Len(s) - Len(p) + 1, Len(s)) = p

\* the 0-based offsets at which p occurs in s
Occurrences(s, p) == {i \in 0..(Len(s) - Len(p)) : SubSeq(s, i + 1, i + Len(p)) = p}
\* p in s
Contains(s, p) == Occurrences(s, p) # {}
\* s.find(p)
Find(s, p) == IF Occurrences(s, p) = {} THEN -1
              ELSE CHOOSE i \in Occurrences(s, p) : \A j \in Occurrences(s, p) : i <= j

KwSelect   == <<"S", "E", "L", "E", "C", "T">>
KwUpdate   == <<"U", "P", "D", "A", "T", "E">>
KwDelete   == <<"D", "E", "L", "E", "T", "E">>
KwInsert   == <<"I", "N", "S", "E", "R", "T">>
KwDrop     == <<"D", "R", "O", "P">>
KwTruncate == <<"T", "R", "U", "N", "C", "A", "T", "E">>
KwAlter    == <<"A", "L", "T", "E", "R">>
KwCreate   == <<"C", "R", "E", "A", "T", "E">>
\* the backquote character
Backquote  == "BACKQUOTE"
Fence      == <<Backquote, Backquote, Backquote>>
FenceSql   == Fence \o <<"s", "q", "l">>

\* line 110: each keyword with the space that follows it in the list
disallowed == {kw \o <<" ">> : kw \in {KwUpdate, KwDelete, KwInsert, KwDrop,
                                        KwTruncate, KwAlter, KwCreate}}

\* line 91: re.match of the fence pattern (IGNORECASE, DOTALL) on the
\* stripped text: it matches iff the text opens and closes with a fence of
\* three backquotes (two distinct fences)
FenceMatches(c) == StartsWith(c, Fence) /\ EndsWith(c, Fence) /\ Len(c) >= 6

\* group(1) of that match: what lies between the opening fence (with the
\* optional "sql" tag, any case) and the closing one, without the white
\* space around it
FenceGroup(c) ==
    LET inner == DropLast(DropFirst(c, 3), 3)
    IN  Strip(IF StartsWith(Lower(inner), <<"s", "q", "l">>)
                THEN DropFirst(inner, 3) ELSE inner)

\* lines 90-98
CleanSql(raw_sql) ==
    LET c0 == Strip(raw_sql)
        c1 == IF FenceMatches(c0) THEN Strip(FenceGroup(c0))
              ELSE LET a == IF StartsWith(Lower(c0), FenceSql)
                              THEN Strip(DropFirst(c0, 6))
                            ELSE IF StartsWith(c0, Fence)
                              THEN Strip(DropFirst(c0, 3))
                            ELSE c0
                   IN  IF EndsWith(a, Fence) THEN Strip(DropLast(a, 3)) ELSE a
    IN  StripOf(Strip(c1), {";"})

SqlFail(msg) == [sql |-> <<>>, error |-> msg]

\* lines 110-116
CheckDisallowed(clean_sql) ==
    IF \E keyword \in disallowed : Contains(Upper(clean_sql), keyword)
      THEN SqlFail(<<"Generated query contains potentially disallowed keywords (non-SELECT).">>)
      ELSE [sql |-> clean_sql, error |-> NoneMsg]

\* _parse_and_validate_sql, lines 85-116
ParseAndValidateSql(raw_sql) ==
    IF raw_sql = <<>> THEN SqlFail(<<"LLM returned an empty response.">>)
    ELSE LET clean_sql == CleanSql(raw_sql)
             select_pos == Find(Upper(clean_sql), KwSelect \o <<" ">>)
         IN  IF clean_sql = <<>>
               THEN SqlFail(<<"LLM response was empty after cleaning formatting.">>)
             ELSE IF ~StartsWith(LStrip(Upper(clean_sql)), KwSelect)
               THEN (IF select_pos # (-1)
                       THEN CheckDisallowed(
                                StripOf(Strip(DropFirst(clean_sql, select_pos)), {";"}))
                       ELSE SqlFail(<<"LLM response does not appear to be a valid SELECT query. Response: '",
                                      "raw_sql[:200]", "...'">>))
             ELSE CheckDisallowed(clean_sql)

\* the characters of a word of the texts below; a separator is its own
\* character and "FENCE" stands for three backquotes
WordChars(w) ==
    CASE w = "FENCE" -> Fence
      [] w = "SELECT" -> <<"S", "E", "L", "E", "C", "T">>
      [] w = "select" -> <<"s", "e", "l", "e", "c", "t">>
      [] w = "DELETE" -> <<"D", "E", "L", "E", "T", "E">>
      [] w = "delete" -> <<"d", "e", "l", "e", "t", "e">>
      [] w = "DROP" -> <<"D", "R", "O", "P">>
      [] w = "drop" -> <<"d", "r", "o", "p">>
      [] w = "FROM" -> <<"F", "R", "O", "M">>
      [] w = "WHERE" -> <<"W", "H", "E", "R", "E">>
      [] w = "IN" -> <<"I", "N">>
      [] w = "TABLE" -> <<"T", "A", "B", "L", "E">>
      [] w = "table" -> <<"t", "a", "b", "l", "e">>
      [] w = "t" -> <<"t">>
      [] w = "id" -> <<"i", "d">>
      [] w = "1" -> <<"1">>
      [] w = "*" -> <<"*">>
      [] w = "(" -> <<"(">>
      [] w = ")" -> <<")">>
      [] OTHER -> <<w>>

\* the text made of the given words
RECURSIVE Text(_)
Text(ws) == IF ws = <<>> THEN <<>> ELSE WordChars(Head(ws)) \o Text(Tail(ws))

\* the words the texts given to _parse_and_validate_sql are made of
SqlAtoms == {"SELECT", "delete", "DROP", " ", "\n", ";", "FENCE"}

MaxSqlAtoms == 5

SqlTexts == {Text(ws) : ws \in UNION {[1..n -> SqlAtoms] : n \in 0..MaxSqlAtoms}}

ValPending == [pending |-> TRUE]

InitValidate ==
    /\ valText \in SqlTexts
    /\ valResult = ValPending

InitValidateIdle ==
    /\ valText = <<>>
    /\ valResult = ValPending

\* a call of _parse_and_validate_sql(raw_sql)
Validate ==
    /\ UNCHANGED notVal
    /\ valResult = ValPending
    /\ valResult' = ParseAndValidateSql(valText)
    /\ UNCHANGED valText

-----------------------------------------------------------------------------
(***************************************************************************)
(*      generate_query_endpoint and execute_query_endpoint  (app.py)       *)
(***************************************************************************)

\* completion texts the capability may return to generate_sql_query
SqlCompletionSamples ==
    { Text(<<"SELECT", " ", "*", " ", "FROM", " ", "t">>),
      Text(<<"FENCE", "s", "q", "l", "\n", "select", " ", "id", " ", "FROM", " ", "t", ";", "\n", "FENCE">>),
      Text(<<"DELETE", " ", "FROM", " ", "t">>),
      Text(<<"DELETE", "\n", "FROM", " ", "t">>),
      Text(<<"drop", " ", "table", " ", "t">>),
      Text(<<"DELETE", " ", "FROM", " ", "t", " ", "WHERE", " ", "id", " ", "IN", " ",
             "(", "SELECT", " ", "id", " ", "FROM", " ", "t", ")">>),
      Text(<<"SELECT", " ", "1", ";", " ", "DROP", "\n", "TABLE", " ", "t">>),
      <<>> }

SqlLlmOutcomes ==
    {[content |-> c, error |-> NoneMsg] : c \in SqlCompletionSamples}
    \cup {[content |-> <<>>, error |-> e] : e \in LlmErrors}

\* what database_agent.execute_query may return: (results_df, None) or
\* (None, error text)   (database_agent.py lines 228-261)
DbErrors ==
    { <<"42703 - column \"x\" does not exist", "LINE 1: ", "SELECT x FROM t", "HINT: Perhaps you meant \"id\".">>,
      <<"Failed to connect to database for query execution.">> }

DbOutcomes == {[ok |-> TRUE, error |-> NoneMsg]}
              \cup {[ok |-> FALSE, error |-> e] : e \in DbErrors}

\* the SQL texts a client may put in the body of an execute_query request
BodySqlSamples ==
    { Text(<<"SELECT", " ", "id", " ", "FROM", " ", "t">>),
      Text(<<"DROP", " ", "TABLE", " ", "t">>),
      <<>> }

\* nl_to_sql_agent.py line 56: re.sub removes "LINE n: " and what follows
\* "HINT:" or "CONTEXT:" up to the end of the line
CleanDbError(db_error) ==
    SelectSeq(db_error, LAMBDA part :
        /\ part # "LINE 1: "
        /\ part # "HINT: Perhaps you meant \"id\".")

\* NLtoSQLAgent._construct_prompt, lines 30-83: the template chosen and the
\* values interpolated into the user message
ConstructSqlPrompt(nl_question, schema_str, previous_query, db_error) ==
    IF previous_query # <<>> /\ Truthy(db_error)
      THEN [template |-> "retry", nl_question |-> nl_question, schema_str |-> schema_str,
            previous_query |-> Strip(previous_query),
            db_error |-> CleanDbError(db_error)]
      ELSE [template |-> "initial", nl_question |-> nl_question, schema_str |-> schema_str,
            previous_query |-> <<>>, db_error |-> NoneMsg]

\* NLtoSQLAgent.generate_sql_query, lines 118-174, given what the completion
\* capability returns when it is called
GenerateSqlQuery(nl_question, schema_str, previous_query, db_error, out) ==
    LET is_retry == previous_query # <<>>
        messages == ConstructSqlPrompt(nl_question, schema_str, previous_query, db_error)
        call == [messages |-> messages,
                 previous_query |-> previous_query, db_error |-> db_error,
                 temperature |-> IF is_retry THEN "0.15" ELSE "0.1",
                 raw |-> out.content, llm_error |-> out.error]
        parsed == ParseAndValidateSql(out.content)
    IN  IF ~StrTruthy(nl_question) \/ ~StrTruthy(schema_str)
          THEN [sql |-> <<>>, error |-> <<"Missing input(s) for SQL generation.">>,
                called |-> FALSE, call |-> call]
        ELSE IF Truthy(out.error)
          THEN [sql |-> <<>>, error |-> out.error, called |-> TRUE, call |-> call]
        ELSE IF out.content # <<>>
          THEN [sql |-> parsed.sql, error |-> parsed.error, called |-> TRUE, call |-> call]
        ELSE [sql |-> <<>>, error |-> <<"LLM client returned empty content.">>,
              called |-> TRUE, call |-> call]

\* the record kept of a generate_sql_query call: what was sent, what the
\* capability returned, what the call returned
GenRecord(g) == [messages |-> g.call.messages, temperature |-> g.call.temperature,
                 previous_query |-> g.call.previous_query,
                 db_error |-> g.call.db_error,
                 raw |-> g.call.raw, llm_error |-> g.call.llm_error,
                 sql |-> g.sql, error |-> g.error]

Response(status, err, sql) == [status |-> status, error |-> err, sql |-> sql]
NoResponse == Response("none", NoneMsg, <<>>)

\* app.py line 369: max_retries = nl_to_sql.MAX_RETRIES (nl_to_sql_agent.py
\* line 23)
max_retries == 1

\* app.py line 384: the test that lets a failed execution go back to the
\* generator
RetryBudgetRemainsOffByOne(attempt_) == attempt_ <= max_retries
RetryBudgetRemains(attempt_) == attempt_ < max_retries

\* one database_agent.execute_query call: the SQL text it was given and
\* the (results_df, error) pair it returned
StoreRecord(sql_query, dbOut) == [sql |-> sql_query, ok |-> dbOut.ok, error |-> dbOut.error]

EmptySession == [last_nl_query |-> NoneStr, last_generated_sql |-> <<>>,
                 last_query_error |-> NoneMsg]

InitSql ==
    /\ sqlPc = "idle"
    /\ sqlEndpoint = "none"
    /\ session = EmptySession
    /\ sql_query_to_execute = <<>>
    /\ sqlAttempt = 0
    /\ db_error_feedback = NoneMsg
    /\ genCalls = 0
    /\ storeCalls = 0
    /\ sqlTrace = <<>>
    /\ storeTrace = <<>>
    /\ sqlResponse = NoResponse

\* generate_query_endpoint, app.py lines 301-352
GenerateQuery(nl_query, schemaOk, out) ==
    /\ UNCHANGED notSql
    /\ sqlPc \in {"idle", "done"}
    /\ sqlPc' = "done"
    /\ sqlEndpoint' = "generate_query"
    /\ sql_query_to_execute' = <<>>
    /\ sqlAttempt' = 0
    /\ db_error_feedback' = NoneMsg
    /\ storeCalls' = 0
    /\ storeTrace' = <<>>
    /\ LET g == GenerateSqlQuery(nl_query, "schema", <<>>, NoneMsg, out)
       IN  IF ~StrTruthy(nl_query)
             THEN /\ sqlResponse' = Response("400", <<"No query provided.">>, <<>>)
                  /\ genCalls' = 0 /\ sqlTrace' = <<>>
                  /\ UNCHANGED session
           ELSE IF ~schemaOk
             THEN /\ sqlResponse' = Response("404",
                        <<"Database schema not found or failed to load (", "Error:", ").">>, <<>>)
                  /\ genCalls' = 0 /\ sqlTrace' = <<>>
                  /\ UNCHANGED session
           ELSE /\ genCalls' = IF g.called THEN 1 ELSE 0
                /\ sqlTrace' = <<GenRecord(g)>>
                /\ IF Truthy(g.error)
                     THEN /\ sqlResponse' = Response("500",
                                <<"SQL generation failed: ">> \o g.error, <<>>)
                          /\ UNCHANGED session
                   ELSE IF g.sql = <<>>
                     THEN /\ sqlResponse' = Response("500",
                                <<"SQL generation returned empty result">>, <<>>)
                          /\ UNCHANGED session
                   ELSE /\ session' = [last_nl_query |-> nl_query,
                                       last_generated_sql |-> g.sql,
                                       last_query_error |-> NoneMsg]
                        /\ sqlResponse' = Response("200", NoneMsg, g.sql)

\* execute_query_endpoint up to its loop, app.py lines 355-375
ExecBegin(bodyIsDict, bodySql, hasLlmConfig) ==
    /\ UNCHANGED notSql
    /\ sqlPc \in {"idle", "done"}
    /\ sqlEndpoint' = "execute_query"
    /\ LET chosen == IF bodyIsDict THEN bodySql ELSE session.last_generated_sql
       IN  /\ sql_query_to_execute' = chosen
           /\ IF chosen = <<>>
                THEN /\ sqlPc' = "done"
                     /\ sqlResponse' = Response("400",
                            <<"No SQL query provided or found in session.">>, <<>>)
              ELSE IF ~hasLlmConfig
                THEN /\ sqlPc' = "done"
                     /\ sqlResponse' = Response("400",
                            <<"LLM config not found in session.">>, <<>>)
              ELSE /\ sqlPc' = "exec"
                   /\ sqlResponse' = NoResponse
    /\ sqlAttempt' = 0
    /\ db_error_feedback' = NoneMsg
    /\ genCalls' = 0
    /\ storeCalls' = 0
    /\ sqlTrace' = <<>>
    /\ storeTrace' = <<>>
    /\ UNCHANGED session

\* the head of one iteration of the loop, app.py lines 377-383 and 407-415:
\* the store executes sql_query_to_execute
ExecStore(dbOut) ==
    /\ UNCHANGED notSql
    /\ sqlPc = "exec"
    /\ sqlAttempt <= max_retries
    /\ storeCalls' = storeCalls + 1
    /\ storeTrace' = Append(storeTrace, StoreRecord(sql_query_to_execute, dbOut))
    /\ IF ~dbOut.ok
         THEN /\ db_error_feedback' = dbOut.error
              /\ session' = [session EXCEPT !.last_query_error = dbOut.error]
              /\ IF RetryBudgetRemains(sqlAttempt)
                   THEN /\ sqlPc' = "regen"
                        /\ sqlResponse' = NoResponse
                   ELSE /\ sqlPc' = "done"
                        /\ sqlResponse' = Response("500",
                               <<"SQL Execution Failed after ", "max_retries+1",
                                 " attempts: ">> \o dbOut.error, <<>>)
         ELSE /\ session' = [session EXCEPT !.last_query_error = NoneMsg]
              /\ sqlPc' = "done"
              /\ sqlResponse' = Response("200", NoneMsg, sql_query_to_execute)
              /\ UNCHANGED db_error_feedback
    /\ UNCHANGED <<sqlEndpoint, sql_query_to_execute, sqlAttempt, genCalls, sqlTrace>>

\* the retry branch of the loop, app.py lines 384-406: the failed SQL and
\* the store's error go back to generate_sql_query
ExecRegen(schemaOk, out) ==
    /\ UNCHANGED notSql
    /\ sqlPc = "regen"
    /\ LET original_nl_query == IF session.last_nl_query = NoneStr
                                  THEN "the user's question"
                                  ELSE session.last_nl_query
           g == GenerateSqlQuery(original_nl_query, "schema", sql_query_to_execute,
                                 db_error_feedback, out)
       IN  IF ~schemaOk
             THEN /\ sqlPc' = "done"
                  /\ sqlResponse' = Response("500",
                         <<"Schema not found for retry (", "Error:", ").">>, <<>>)
                  /\ UNCHANGED <<session, sql_query_to_execute, sqlAttempt, genCalls, sqlTrace>>
           ELSE /\ genCalls' = genCalls + (IF g.called THEN 1 ELSE 0)
                /\ sqlTrace' = Append(sqlTrace, GenRecord(g))
                /\ IF Truthy(g.error)
                     THEN /\ sqlPc' = "done"
                          /\ sqlResponse' = Response("500",
                                 <<"SQL Execution Failed: ">> \o db_error_feedback
                                 \o <<". LLM retry also failed: ">> \o g.error, <<>>)
                          /\ UNCHANGED <<session, sql_query_to_execute, sqlAttempt>>
                   ELSE IF g.sql = <<>>
                     THEN /\ sqlPc' = "done"
                          /\ sqlResponse' = Response("500",
                                 <<"SQL Execution Failed: ">> \o db_error_feedback
                                 \o <<". LLM retry returned empty SQL.">>, <<>>)
                          /\ UNCHANGED <<session, sql_query_to_execute, sqlAttempt>>
                   ELSE /\ sql_query_to_execute' = g.sql
                        /\ session' = [session EXCEPT !.last_generated_sql = g.sql]
                        /\ sqlAttempt' = sqlAttempt + 1
                        /\ sqlPc' = "exec"
                        /\ sqlResponse' = NoResponse
    /\ UNCHANGED <<sqlEndpoint, db_error_feedback, storeCalls, storeTrace>>

\* download_query_result_csv, app.py lines 790-820: the statement kept in
\* the session is executed again, unless the last execution failed
DownloadQueryResultCsv(dbOut) ==
    /\ UNCHANGED notSql
    /\ sqlPc \in {"idle", "done"}
    /\ sqlPc' = "done"
    /\ sqlEndpoint' = "query_result_csv"
    /\ sql_query_to_execute' = <<>>
    /\ sqlAttempt' = 0
    /\ db_error_feedback' = NoneMsg
    /\ genCalls' = 0
    /\ sqlTrace' = <<>>
    /\ LET sql_to_run == session.last_generated_sql
           last_query_error == session.last_query_error
       IN  IF Truthy(last_query_error)
             THEN /\ sqlResponse' = Response("400",
                        <<"Cannot download, last query failed: ">> \o last_query_error, <<>>)
                  /\ storeCalls' = 0 /\ storeTrace' = <<>>
           ELSE IF sql_to_run = <<>>
             THEN /\ sqlResponse' = Response("404",
                        <<"No successful query found to download results for.">>, <<>>)
                  /\ storeCalls' = 0 /\ storeTrace' = <<>>
           ELSE /\ storeCalls' = 1
                /\ storeTrace' = <<StoreRecord(sql_to_run, dbOut)>>
                /\ sqlResponse' = IF dbOut.ok
                                    THEN Response("200", NoneMsg, sql_to_run)
                                    ELSE Response("500",
                                           <<"Failed data retrieval. Error: ">> \o dbOut.error, <<>>)
    /\ UNCHANGED session

-----------------------------------------------------------------------------
(***************************************************************************)
(*          CleaningAgent.apply_cleaning_steps  (cleaning_agent.py)        *)
(*                                                                         *)
(* A DataFrame is its column names, the dtype kind of each column and its  *)
(* rows; a cell is NaN, a number (a fraction n/d in lowest terms, so that  *)
(* means and medians are exact) or a string.                               *)
(***************************************************************************)
NaN     == [kind |-> "nan", n |-> 0, d |-> 1, s |-> ""]
Num(k)  == [kind |-> "num", n |-> k, d |-> 1, s |-> ""]
Str(t)  == [kind |-> "str", n |-> 0, d |-> 1, s |-> t]

RECURSIVE Gcd(_, _)
Gcd(x, y) == IF y = 0 THEN x ELSE Gcd(y, x % y)

Abs(x) == IF x < 0 THEN -x ELSE x

\* the fraction n/d (d > 0) in lowest terms
Frac(n, d) ==
    LET g == Gcd(Abs(n), d)
    IN  [kind |-> "num", n |-> n \div g, d |-> d \div g, s |-> ""]

Less(x, y) == x.n * y.d < y.n * x.d

RECURSIVE SumN(_, _)
\* the numerator of the sum of the fractions xs over the common denominator dd
SumN(xs, dd) == IF xs = <<>> THEN 0
                ELSE Head(xs).n * (dd \div Head(xs).d) + SumN(Tail(xs), dd)

RECURSIVE ProdD(_)
ProdD(xs) == IF xs = <<>> THEN 1 ELSE Head(xs).d * ProdD(Tail(xs))

Mean(xs) == Frac(SumN(xs, ProdD(xs)), ProdD(xs) * Len(xs))

\* the k-th smallest (1-based) of the numbers xs
KthSmallest(xs, k) ==
    LET rank(i) == Cardinality({j \in 1..Len(xs) :
                        Less(xs[j], xs[i]) \/ (xs[j] = xs[i] /\ j < i)}) + 1
    IN  xs[CHOOSE i \in 1..Len(xs) : rank(i) = k]

Median(xs) ==
    LET m == Len(xs)
    IN  IF m % 2 = 1 THEN KthSmallest(xs, (m + 1) \div 2)
        ELSE Mean(<<KthSmallest(xs, m \div 2), KthSmallest(xs, m \div 2 + 1)>>)

\* the order SimpleImputer(strategy='most_frequent') breaks ties by: the
\* smallest value
StrOrder == <<"Missing", "x", "y">>
CellLess(x, y) == IF x.kind = "num" /\ y.kind = "num" THEN Less(x, y)
                  ELSE IndexIn(StrOrder, x.s) < IndexIn(StrOrder, y.s)

MostFrequent(xs) ==
    LET count(v) == Cardinality({j \in 1..Len(xs) : xs[j] = v})
        vals == {xs[j] : j \in 1..Len(xs)}
        best == {v \in vals : \A w \in vals : count(w) <= count(v)}
    IN  CHOOSE v \in best : \A w \in best : w = v \/ CellLess(v, w)

ColIndex(ds, col) == CHOOSE i \in 1..Len(ds.columns) : ds.columns[i] = col
HasColumn(ds, col) == col \in SeqToSet(ds.columns)
Column(ds, col) == [r \in 1..Len(ds.rows) |-> ds.rows[r][ColIndex(ds, col)]]

\* the entries of s at the indices satisfying keep, in order
RECURSIVE Pick(_, _, _)
Pick(s, keepSet, i) ==
    IF i > Len(s) THEN <<>>
    ELSE (IF i \in keepSet THEN <<s[i]>> ELSE <<>>) \o Pick(s, keepSet, i + 1)

\* DataFrame.drop_duplicates(): a row equal to an earlier row goes (NaN
\* cells compare equal)
DropDuplicates(ds) ==
    [ds EXCEPT !.rows = Pick(ds.rows,
        {i \in 1..Len(ds.rows) : \A j \in 1..(i - 1) : ds.rows[j] # ds.rows[i]}, 1)]

\* DataFrame.drop(columns=cols): KeyError, and nothing dropped, unless every
\* label is a column
DropRaises(ds, cols) == \E c \in cols : ~HasColumn(ds, c)

DropColumns(ds, cols) ==
    LET keepSet == {i \in 1..Len(ds.columns) : ds.columns[i] \notin cols}
    IN  [ds EXCEPT !.columns = Pick(ds.columns, keepSet, 1),
                   !.kinds   = Pick(ds.kinds, keepSet, 1),
                   !.rows    = [r \in 1..Len(ds.rows) |-> Pick(ds.rows[r], keepSet, 1)]]

\* the value SimpleImputer(strategy) fits on a column
Observed(cells) == SelectSeq(cells, LAMBDA c : c.kind # "nan")

\* SimpleImputer.fit_transform raises: a mean or a median of a non-numeric
\* column, a string constant for a numeric column, or no observed value to
\* fit a statistic on (the fitted frame then has no column to assign)
ImputeRaises(ds, col, code) ==
    LET kind == ds.kinds[ColIndex(ds, col)]
    IN  \/ code \in {"impute_median", "impute_mean"} /\ kind # "num"
        \/ code = "impute_constant" /\ kind = "num"
        \/ code # "impute_constant" /\ Observed(Column(ds, col)) = <<>>

FillValue(ds, col, code, fill_val) ==
    LET obs == Observed(Column(ds, col))
    IN  CASE code = "impute_median" -> Median(obs)
          [] code = "impute_mean"   -> Mean(obs)
          [] code = "impute_mode"   -> MostFrequent(obs)
          [] OTHER                  -> Str(fill_val)

\* cleaned_df[col] = imputer.fit_transform(cleaned_df[[col]])
Impute(ds, col, code, fill_val) ==
    LET i == ColIndex(ds, col)
        v == FillValue(ds, col, code, fill_val)
    IN  [ds EXCEPT !.rows = [r \in 1..Len(ds.rows) |->
            [ds.rows[r] EXCEPT ![i] = IF @.kind = "nan" THEN v ELSE @]]]

\* an action record; a key the record does not have is AbsentKey
AbsentKey == "<absent>"
Action(code, col, fill) == [action_code |-> code, column |-> col, fill_value |-> fill]

\* dict.get(key): None for a key the record does not have
Get(v) == IF v = AbsentKey THEN NoneStr ELSE v

\* a log line: its fixed text and the values interpolated into it
Log(msg, code, col, cols, n) == [msg |-> msg, code |-> code, col |-> col, cols |-> cols, n |-> n]

AllColumns == {"a", "b", "zz"}

\* line 193: any(action['action_code'] == 'remove_duplicates' ...) raises
\* KeyError at a record without the key, unless a match came before it
AnyRaises(acts) ==
    \E i \in 1..Len(acts) :
        /\ acts[i].action_code = AbsentKey
        /\ \A j \in 1..(i - 1) : acts[j].action_code # "remove_duplicates"

\* the mutant of AnyRemoveDuplicates: only the head of the list is looked at
AnyRemoveDuplicatesHeadOnly(acts) ==
    acts # <<>> /\ acts[1].action_code = "remove_duplicates"

\* line 193: the value of any(...) when it does not raise
AnyRemoveDuplicates(acts) ==
    \E i \in 1..Len(acts) : acts[i].action_code = "remove_duplicates"
\* lines 206 and 213: action['action_code'] over the whole list
SubscriptRaises(acts) == \E i \in 1..Len(acts) : acts[i].action_code = AbsentKey

InitCleaningIdle ==
    /\ clnPc = "idle"
    /\ df = [isNone |-> TRUE, columns |-> <<>>, kinds |-> <<>>, rows |-> <<>>]
    /\ actions = <<>>
    /\ cleaned_df = [isNone |-> TRUE, columns |-> <<>>, kinds |-> <<>>, rows |-> <<>>]
    /\ selected_actions = <<>>
    /\ logs = <<>>
    /\ applied_codes_for_col = [c \in AllColumns |-> NoneStr]
    /\ clnIdx = 0
    /\ clnOps = <<>>
    /\ cleaned_df_ref = "copy"

\* the mutant of WorkingObject: cleaned_df = df, no copy is made
WorkingObjectAlias == "df"

\* line 185: cleaned_df is bound to df.copy(), a new object
WorkingObject == "copy"

\* the content of the caller's frame after an operation that changes
\* cleaned_df in place: the change shows in df iff both are one object
SeenThroughDf(new) == IF cleaned_df_ref = "df" THEN new ELSE df

\* lines 181-189
ClnStart ==
    /\ UNCHANGED notCln
    /\ clnPc = "start"
    /\ IF df.isNone
         THEN /\ clnPc' = "done"
              /\ logs' = <<Log("Error: Input DataFrame is None.", NoneStr, NoneStr, {}, 0)>>
         ELSE /\ clnPc' = "dedup"
              /\ logs' = <<>>
    /\ cleaned_df' = df
    /\ selected_actions' = actions
    /\ applied_codes_for_col' = [c \in AllColumns |-> NoneStr]
    /\ cleaned_df_ref' = WorkingObject
    /\ UNCHANGED <<df, actions, clnIdx, clnOps>>

\* lines 193-206: the row-level pass
ClnDedup ==
    /\ UNCHANGED notCln
    /\ clnPc = "dedup"
    /\ IF AnyRaises(selected_actions)
         THEN /\ clnPc' = "raised"
              /\ UNCHANGED <<cleaned_df, selected_actions, logs, clnOps>>
       ELSE IF AnyRemoveDuplicates(selected_actions)
         THEN LET after == DropDuplicates(cleaned_df)
                  rows_removed == Len(cleaned_df.rows) - Len(after.rows)
              IN  /\ cleaned_df' = after
                  /\ clnOps' = Append(clnOps, [op |-> "drop_duplicates", cols |-> {}, code |-> NoneStr])
                  /\ logs' = Append(logs,
                        IF rows_removed > 0
                          THEN Log("Applied 'remove_duplicates': Removed n duplicate rows.",
                                   "remove_duplicates", NoneStr, {}, rows_removed)
                          ELSE Log("Applied 'remove_duplicates': No duplicate rows found to remove.",
                                   "remove_duplicates", NoneStr, {}, 0))
                  /\ IF SubscriptRaises(selected_actions)
                       THEN /\ clnPc' = "raised"
                            /\ UNCHANGED selected_actions
                       ELSE /\ clnPc' = "drop"
                            /\ selected_actions' = SelectSeq(selected_actions,
                                   LAMBDA a : a.action_code # "remove_duplicates")
       ELSE /\ clnPc' = "drop"
            /\ UNCHANGED <<cleaned_df, selected_actions, logs, clnOps>>
    /\ df' = SeenThroughDf(cleaned_df')
    /\ UNCHANGED <<actions, applied_codes_for_col, clnIdx, cleaned_df_ref>>

\* lines 212-222: the log lines "Marked column ..." in list order, one per
\* distinct target
RECURSIVE MarkLogs(_, _)
MarkLogs(acts, seen) ==
    IF acts = <<>> THEN <<>>
    ELSE LET a == Head(acts)
             col == Get(a.column)
             marks == a.action_code = "drop_column" /\ StrTruthy(col) /\ col \notin seen
         IN  (IF marks THEN <<Log("Marked column for dropping", "drop_column", col, {}, 0)>>
                       ELSE <<>>)
             \o MarkLogs(Tail(acts), IF marks THEN seen \cup {col} ELSE seen)

ColsToDrop(acts) ==
    {Get(acts[i].column) : i \in {j \in 1..Len(acts) :
        acts[j].action_code = "drop_column" /\ StrTruthy(Get(acts[j].column))}}

\* line 227: cleaned_df.drop(columns=list(cols_to_drop), inplace=True)
DropOutcome(ds, cols) ==
    IF DropRaises(ds, cols) THEN [raised |-> TRUE, ds |-> ds]
    ELSE [raised |-> FALSE, ds |-> DropColumns(ds, cols)]

\* lines 209-238: the column-dropping pass
ClnDrop ==
    /\ UNCHANGED notCln
    /\ clnPc = "drop"
    /\ IF SubscriptRaises(selected_actions)
         THEN /\ clnPc' = "raised"
              /\ UNCHANGED <<cleaned_df, selected_actions, logs, clnOps, clnIdx>>
         ELSE LET cols_to_drop == ColsToDrop(selected_actions)
                  marked == logs \o MarkLogs(selected_actions, {})
                  dropped == DropOutcome(cleaned_df, cols_to_drop)
              IN  /\ selected_actions' = SelectSeq(selected_actions,
                         LAMBDA a : a.action_code # "drop_column")
                  /\ clnPc' = "remaining"
                  /\ clnIdx' = 1
                  /\ IF cols_to_drop = {}
                       THEN /\ logs' = marked
                            /\ UNCHANGED <<cleaned_df, clnOps>>
                       ELSE /\ clnOps' = Append(clnOps,
                                   [op |-> "drop", cols |-> cols_to_drop, code |-> NoneStr])
                            /\ cleaned_df' = dropped.ds
                            /\ logs' = Append(marked,
                                   IF dropped.raised
                                     THEN Log("Warning: Could not drop columns - KeyError. They might have been dropped already.",
                                              "drop_column", NoneStr, cols_to_drop, 0)
                                     ELSE Log("Dropped columns: ", "drop_column", NoneStr,
                                              cols_to_drop, 0))
    /\ df' = SeenThroughDf(cleaned_df')
    /\ UNCHANGED <<actions, applied_codes_for_col, cleaned_df_ref>>

ImputeCodes == {"impute_median", "impute_mean", "impute_mode", "impute_constant"}

\* the mutant of StartsWithImpute: equality instead of a prefix test
StartsWithImputeExact(code) == code = "impute"

\* str.startswith("impute") on the action codes
StartsWithImpute(code) == code \in ImputeCodes

\* lines 241-313: one iteration of the loop over the remaining actions
ClnRemaining ==
    /\ UNCHANGED notCln
    /\ clnPc = "remaining"
    /\ IF clnIdx > Len(selected_actions)
         THEN /\ clnPc' = "done"
              /\ UNCHANGED <<cleaned_df, logs, applied_codes_for_col, clnIdx, clnOps>>
         ELSE LET action == selected_actions[clnIdx]
                  col  == Get(action.column)
                  code == Get(action.action_code)
                  fill_val == IF action.fill_value = AbsentKey THEN "Unknown"
                                                               ELSE action.fill_value
                  prev_action == IF col \in AllColumns THEN applied_codes_for_col[col]
                                                       ELSE NoneStr
              IN  /\ clnIdx' = clnIdx + 1
                  /\ clnPc' = "remaining"
                  /\ IF ~HasColumn(cleaned_df, col)
                       THEN /\ logs' = Append(logs,
                                  Log("Skipping action: Column no longer exists.", code, col, {}, 0))
                            /\ UNCHANGED <<cleaned_df, applied_codes_for_col, clnOps>>
                     ELSE IF code \in ImputeCodes
                       THEN IF StrTruthy(prev_action) /\ StartsWithImpute(prev_action)
                              THEN /\ logs' = Append(logs,
                                         Log("Skipping: Imputation already applied.", code, col, {}, 0))
                                   /\ UNCHANGED <<cleaned_df, applied_codes_for_col, clnOps>>
                            ELSE IF ImputeRaises(cleaned_df, col, code)
                              THEN /\ logs' = Append(logs,
                                         Log("Error applying action", code, col, {}, 0))
                                   /\ UNCHANGED <<cleaned_df, applied_codes_for_col, clnOps>>
                            ELSE /\ cleaned_df' = Impute(cleaned_df, col, code, fill_val)
                                 /\ applied_codes_for_col' =
                                        [applied_codes_for_col EXCEPT ![col] = code]
                                 /\ clnOps' = Append(clnOps,
                                        [op |-> "impute", cols |-> {col}, code |-> code])
                                 /\ logs' = Append(logs,
                                        Log("Applied: Imputed missing values", code, col, {}, 0))
                     ELSE IF StrTruthy(code)
                       THEN /\ logs' = Append(logs,
                                  Log("Warning: Action code not implemented yet.", code, col, {}, 0))
                            /\ UNCHANGED <<cleaned_df, applied_codes_for_col, clnOps>>
                     ELSE UNCHANGED <<cleaned_df, logs, applied_codes_for_col, clnOps>>
    /\ df' = SeenThroughDf(cleaned_df')
    /\ UNCHANGED <<actions, selected_actions, cleaned_df_ref>>

\* the datasets apply_cleaning_steps is given
Frame(rows) == [isNone |-> FALSE, columns |-> <<"a", "b">>,
                kinds |-> <<"num", "obj">>, rows |-> rows]
NoneFrame == [isNone |-> TRUE, columns |-> <<>>, kinds |-> <<>>, rows |-> <<>>]

DatasetSamples ==
    { Frame(<< <<Num(1), Str("x")>>, <<NaN, Str("y")>>,
               <<Num(2), Str("x")>>, <<Num(1), Str("x")>> >>),
      Frame(<< <<Num(1), NaN>>, <<Num(4), Str("y")>>, <<NaN, Str("y")>> >>),
      NoneFrame }

\* the action records a client may select
ActionSamples ==
    { Action("remove_duplicates", "ALL", AbsentKey),
      Action("drop_column", "a", AbsentKey),
      Action("drop_column", "b", AbsentKey),
      Action("drop_column", "zz", AbsentKey),
      Action("impute_median", "a", AbsentKey),
      Action("impute_mean", "a", AbsentKey),
      Action("impute_mode", "b", AbsentKey),
      Action("impute_constant", "b", "Missing"),
      Action("impute_median", "b", AbsentKey),
      Action("impute_mean", "zz", AbsentKey),
      Action("polynomial_feature", "a", AbsentKey),
      Action("polynomial_feature", "zz", AbsentKey),
      Action(AbsentKey, "a", AbsentKey),
      Action("", "a", AbsentKey) }

MaxActions == 3

ActionLists == UNION {[1..n -> ActionSamples] : n \in 0..MaxActions}

InitCleaning ==
    /\ clnPc = "start"
    /\ df \in DatasetSamples
    /\ actions \in ActionLists
    /\ cleaned_df = NoneFrame
    /\ selected_actions = <<>>
    /\ logs = <<>>
    /\ applied_codes_for_col = [c \in AllColumns |-> NoneStr]
    /\ clnIdx = 0
    /\ clnOps = <<>>
    /\ cleaned_df_ref = "copy"

-----------------------------------------------------------------------------
(***************************************************************************)
(*   FeatureEngineeringAgent.apply_features (feature_engineering_agent.py) *)
(*                                                                         *)
(* A feature record holds name and action_code and, flattened, the keys of *)
(* its details: column, part, degree (0: absent), columns, operation.      *)
(* A datetime cell holds its date as text; NaT is the NaN cell.            *)
(***************************************************************************)
Feature(name, code, column, part, degree, columns, operation) ==
    [name |-> name, action_code |-> code, column |-> column, part |-> part,
     degree |-> degree, columns |-> columns, operation |-> operation]

Dt(t) == [kind |-> "dt", n |-> 0, d |-> 1, s |-> t]

\* the fields .dt.year, .dt.month, .dt.day, .dt.weekday, .dt.hour of the
\* dates that occur
DateParts ==
    [t \in {"1970-01-01", "2021-03-04", "2022-11-05"} |->
        CASE t = "1970-01-01" -> [year |-> 1970, month |-> 1, day |-> 1, weekday |-> 3, hour |-> 0]
          [] t = "2021-03-04" -> [year |-> 2021, month |-> 3, day |-> 4, weekday |-> 3, hour |-> 0]
          [] OTHER            -> [year |-> 2022, month |-> 11, day |-> 5, weekday |-> 5, hour |-> 0]]

\* lines 189-193: the parts the code extracts
DatetimeParts == {"year", "month", "day", "weekday", "hour"}

\* pd.to_datetime(errors='coerce') on one cell: a number is a count of
\* nanoseconds since the epoch, a text that is not a date becomes NaT
ToDatetime(cell) ==
    CASE cell.kind = "dt"  -> cell
      [] cell.kind = "num" -> Dt("1970-01-01")
      [] cell.kind = "str" -> (IF cell.s \in DOMAIN DateParts THEN Dt(cell.s) ELSE NaN)
      [] OTHER             -> NaN

PartOf(cell, part) == IF cell.kind = "nan" THEN NaN ELSE Num(DateParts[cell.s][part])

KindOf(ds, col) == ds.kinds[ColIndex(ds, col)]

\* engineered_df[col] = series, for a column the frame has
SetColumn(ds, col, kind, cells) ==
    LET i == ColIndex(ds, col)
    IN  [ds EXCEPT !.kinds[i] = kind,
                   !.rows = [r \in 1..Len(ds.rows) |-> [ds.rows[r] EXCEPT ![i] = cells[r]]]]

\* engineered_df[name] = series, for a name the frame does not have
AddColumn(ds, name, kind, cells) ==
    [ds EXCEPT !.columns = Append(ds.columns, name),
               !.kinds   = Append(ds.kinds, kind),
               !.rows    = [r \in 1..Len(ds.rows) |-> Append(ds.rows[r], cells[r])]]

RECURSIVE IntPow(_, _)
IntPow(b, e) == IF e = 0 THEN 1 ELSE b * IntPow(b, e - 1)

\* cell ** degree, x * y and x / y.replace(0, NaN) on numeric cells
Pow(x, degree) == IF x.kind = "nan" THEN NaN ELSE Frac(IntPow(x.n, degree), IntPow(x.d, degree))
Mul(x, y) == IF x.kind = "nan" \/ y.kind = "nan" THEN NaN ELSE Frac(x.n * y.n, x.d * y.d)
Div(x, y) ==
    IF x.kind = "nan" \/ y.kind = "nan" \/ y.n = 0 THEN NaN
    ELSE IF y.n > 0 THEN Frac(x.n * y.d, x.d * y.n)
    ELSE Frac(-(x.n * y.d), x.d * (-y.n))

\* a log line: its fixed text and the feature it is about
FLog(msg, feature) ==
    [msg |-> msg, code |-> Get(feature.action_code), name |-> Get(feature.name)]

FeatOutcome(ds, lines) == [ds |-> ds, logs |-> lines]

\* lines 261-270: the except branch, where the column name is dropped if it
\* was created
FeatFailed(ds, feature) ==
    FeatOutcome(IF HasColumn(ds, Get(feature.name))
                  THEN DropColumns(ds, {Get(feature.name)}) ELSE ds,
                <<FLog("Error: Failed to apply feature", feature)>>)

\* lines 179-204: code 'extract_datetime'.  fillnaInPlace says whether the
\* chained engineered_df[name].fillna(-1, inplace=True) of line 198 reaches
\* the frame: it does not when pandas runs with copy-on-write, and astype(int)
\* of line 199 then raises on the missing values.  No pandas version is
\* pinned, so either build may be the one that runs.
ExtractDatetime(ds, feature, fillnaInPlace) ==
    LET name == Get(feature.name)
        col  == Get(feature.column)
        part == Get(feature.part)
    IN  IF ~(StrTruthy(col) /\ StrTruthy(part) /\ HasColumn(ds, col))
          THEN FeatOutcome(ds, <<FLog("Error: Missing details or column not found for datetime extraction.", feature)>>)
        ELSE LET cells == Column(ds, col)
                 converted == IF KindOf(ds, col) = "dt" THEN ds
                              ELSE SetColumn(ds, col, "dt",
                                       [r \in 1..Len(cells) |-> ToDatetime(cells[r])])
                 parts == [r \in 1..Len(cells) |-> PartOf(Column(converted, col)[r], part)]
                 filled == [r \in 1..Len(cells) |->
                               IF parts[r].kind = "nan" THEN Num(-1) ELSE parts[r]]
             IN  IF KindOf(converted, col) # "dt"
                   THEN FeatOutcome(converted, <<FLog("Error: Could not extract datetime part: Column is not datetime or could not be converted.", feature)>>)
                 ELSE IF part \notin DatetimeParts
                   THEN FeatFailed(converted, feature)
                 ELSE IF \A r \in 1..Len(cells) : parts[r].kind # "nan"
                   THEN FeatOutcome(AddColumn(converted, name, "num", parts),
                                    <<FLog("Applied: Extracted part", feature)>>)
                 ELSE IF fillnaInPlace
                   THEN FeatOutcome(AddColumn(converted, name, "num", filled),
                                    <<FLog("Applied: Extracted part", feature)>>)
                 ELSE FeatFailed(AddColumn(converted, name, "num", parts), feature)

\* lines 206-216: code 'polynomial_feature'
PolynomialFeature(ds, feature) ==
    LET name == Get(feature.name)
        col  == Get(feature.column)
        degree == feature.degree
    IN  IF ~(StrTruthy(col) /\ degree # 0 /\ HasColumn(ds, col))
          THEN FeatOutcome(ds, <<FLog("Error: Missing details or column not found for polynomial feature.", feature)>>)
        ELSE IF KindOf(ds, col) # "num"
          THEN FeatOutcome(ds, <<FLog("Error: Cannot apply polynomial: Column is not numeric.", feature)>>)
        ELSE FeatOutcome(AddColumn(ds, name, "num",
                             [r \in 1..Len(ds.rows) |-> Pow(Column(ds, col)[r], degree)]),
                         <<FLog("Applied: Created power", feature)>>)

\* lines 218-238: code 'interaction_feature'
InteractionFeature(ds, feature) ==
    LET name == Get(feature.name)
        cols == feature.columns
        op   == Get(feature.operation)
    IN  IF ~(Len(cols) = 2 /\ StrTruthy(op) /\ \A i \in 1..Len(cols) : HasColumn(ds, cols[i]))
          THEN FeatOutcome(ds, <<FLog("Error: Missing details, invalid column count/names for interaction feature.", feature)>>)
        ELSE IF KindOf(ds, cols[1]) # "num" \/ KindOf(ds, cols[2]) # "num"
          THEN FeatOutcome(ds, <<FLog("Error: Cannot create interaction: Columns must both be numeric.", feature)>>)
        ELSE IF op = "multiply"
          THEN FeatOutcome(AddColumn(ds, name, "num",
                               [r \in 1..Len(ds.rows) |->
                                   Mul(Column(ds, cols[1])[r], Column(ds, cols[2])[r])]),
                           <<FLog("Applied: Created product", feature)>>)
        ELSE IF op = "divide"
          THEN FeatOutcome(AddColumn(ds, name, "num",
                               [r \in 1..Len(ds.rows) |->
                                   Div(Column(ds, cols[1])[r], Column(ds, cols[2])[r])]),
                           <<FLog("Applied: Created ratio", feature)>>)
        ELSE FeatOutcome(ds, <<FLog("Error: Unsupported interaction operation", feature)>>)

\* the mutant of FeatureCodes: one more code is taken for a polynomial
FeatureCodesLax == {"extract_datetime", "polynomial_feature", "interaction_feature",
                    "bin_numeric"}

\* lines 179, 206, 218: the codes apply_features implements
FeatureCodes == {"extract_datetime", "polynomial_feature", "interaction_feature"}

\* lines 164-270: one iteration of the loop, on one feature
ApplyFeature(ds, feature, fillnaInPlace) ==
    LET name == Get(feature.name)
        code == Get(feature.action_code)
    IN  IF HasColumn(ds, name)
          THEN FeatOutcome(ds, <<FLog("Warning: Skipping feature: Column already exists.", feature)>>)
        ELSE IF code = "extract_datetime" THEN ExtractDatetime(ds, feature, fillnaInPlace)
        ELSE IF code = "interaction_feature" THEN InteractionFeature(ds, feature)
        ELSE IF code \in FeatureCodes THEN PolynomialFeature(ds, feature)
        ELSE IF StrTruthy(code)
          THEN FeatOutcome(ds, <<FLog("Warning: Feature action code not implemented yet.", feature)>>)
        ELSE FeatOutcome(ds, <<>>)

InitFeaturesIdle ==
    /\ featPc = "idle"
    /\ feat_df = NoneFrame
    /\ selected_features = <<>>
    /\ engineered_df = NoneFrame
    /\ feat_logs = <<>>
    /\ featIdx = 0
    /\ engineered_df_ref = "copy"
    /\ copy_on_write = FALSE

\* lines 155-161: the None guard, the copy and the empty log list
FeatStart ==
    /\ UNCHANGED notFeat
    /\ featPc = "start"
    /\ IF feat_df.isNone
         THEN /\ featPc' = "done"
              /\ feat_logs' = <<[msg |-> "Error: Input DataFrame is None.",
                                 code |-> NoneStr, name |-> NoneStr]>>
              /\ featIdx' = 0
         ELSE /\ featPc' = IF selected_features = <<>> THEN "done" ELSE "loop"
              /\ feat_logs' = <<>>
              /\ featIdx' = 1
    /\ engineered_df' = feat_df
    /\ engineered_df_ref' = "copy"
    /\ UNCHANGED <<feat_df, selected_features, copy_on_write>>

\* lines 164-273: one iteration of the loop; the return follows the last one
FeatStep ==
    /\ UNCHANGED notFeat
    /\ featPc = "loop"
    /\ LET out == ApplyFeature(engineered_df, selected_features[featIdx], ~copy_on_write)
       IN  /\ engineered_df' = out.ds
           /\ feat_logs' = feat_logs \o out.logs
    /\ featIdx' = featIdx + 1
    /\ featPc' = IF featIdx = Len(selected_features) THEN "done" ELSE "loop"
    /\ UNCHANGED <<feat_df, selected_features, engineered_df_ref, copy_on_write>>

\* the datasets apply_features is given
FeatureFrame(rows) == [isNone |-> FALSE, columns |-> <<"a", "d">>,
                       kinds |-> <<"num", "obj">>, rows |-> rows]

FeatureDatasetSamples ==
    { FeatureFrame(<< <<Num(2), Str("2021-03-04")>>, <<Num(0), Str("x")>> >>),
      FeatureFrame(<< <<Num(3), Str("2022-11-05")>>, <<NaN, Str("2021-03-04")>> >>),
      NoneFrame }

\* the feature records a client may select
FeatureSamples ==
    { Feature("d_year", "extract_datetime", "d", "year", 0, <<>>, AbsentKey),
      Feature("d_quarter", "extract_datetime", "d", "quarter", 0, <<>>, AbsentKey),
      Feature("a_pow2", "polynomial_feature", "a", AbsentKey, 2, <<>>, AbsentKey),
      Feature("d_pow2", "polynomial_feature", "d", AbsentKey, 2, <<>>, AbsentKey),
      Feature("a_x_a", "interaction_feature", AbsentKey, AbsentKey, 0, <<"a", "a">>, "multiply"),
      Feature("a_div_a", "interaction_feature", AbsentKey, AbsentKey, 0, <<"a", "a">>, "divide"),
      Feature("a_bin", "bin_numeric", "a", AbsentKey, 2, <<>>, AbsentKey),
      Feature("a", "polynomial_feature", "a", AbsentKey, 2, <<>>, AbsentKey),
      Feature("a_none", AbsentKey, "a", AbsentKey, 2, <<>>, AbsentKey),
      Feature("a_empty", "", "a", AbsentKey, 2, <<>>, AbsentKey) }

MaxFeatures == 2

FeatureLists == UNION {[1..n -> FeatureSamples] : n \in 0..MaxFeatures}

InitFeatures ==
    /\ featPc = "start"
    /\ feat_df \in FeatureDatasetSamples
    /\ selected_features \in FeatureLists
    /\ engineered_df = NoneFrame
    /\ feat_logs = <<>>
    /\ featIdx = 0
    /\ engineered_df_ref = "copy"
    /\ copy_on_write \in BOOLEAN

-----------------------------------------------------------------------------
(***************************************************************************)
(* PreprocessingAgent._perform_dbscan and PreprocessingAgent.profile       *)
(* (preprocessing_agent.py).  A report holds its per-column dicts as       *)
(* sequences of entries in insertion order, which is the order a Python    *)
(* dict iterates in.  A percentage is a count of hundredths: 2500 is 25.0. *)
(* An outlier result lists the keys the dict has; the value of a key that  *)
(* is not among them is a filler.                                          *)
(***************************************************************************)
\* the strings str(dtype) of the dtypes a loaded or engineered frame has
Int64Dtype    == <<"i", "n", "t", "6", "4">>
Float64Dtype  == <<"f", "l", "o", "a", "t", "6", "4">>
ObjectDtype   == <<"o", "b", "j", "e", "c", "t">>
BoolDtype     == <<"b", "o", "o", "l">>
DatetimeDtype == <<"d", "a", "t", "e", "t", "i", "m", "e", "6", "4", "[", "n", "s", "]">>
NoneDtype     == <<"<None>">>

\* the dict of 'eps' (a fraction eps_n/eps_d) and 'min_samples'; a key may
\* be absent
DbscanParams(has_eps, eps_n, eps_d, has_min_samples, min_samples) ==
    [has_eps |-> has_eps, eps_n |-> eps_n, eps_d |-> eps_d,
     has_min_samples |-> has_min_samples, min_samples |-> min_samples]

\* constants.py line 40 (0.5 = 1/2) and line 41
DEFAULT_DBSCAN_EPS_N == 1
DEFAULT_DBSCAN_EPS_D == 2
DEFAULT_DBSCAN_MIN_SAMPLES == 5

\* params.get('min_samples', 5) and params.get('eps', 0.5)
GetMinSamples(params) == IF params.has_min_samples THEN params.min_samples ELSE 5
GetEps(params) == IF params.has_eps THEN Frac(params.eps_n, params.eps_d) ELSE Frac(1, 2)

OutlierKeys == {"method", "parameters", "outlier_count", "outlier_percentage",
                "rows_analyzed", "rows_dropped_nan", "error"}

\* lines 211-219: the dict results as it is initialised
InitialResults ==
    [keys |-> OutlierKeys, method |-> "DBSCAN", outlier_count |-> 0,
     outlier_percentage |-> 0, rows_analyzed |-> 0, rows_dropped_nan |-> 0,
     error |-> NoneStr]

\* lines 58 and 164-167: a dict of 'method' and 'error' only
ErrorOnlyResult(error) ==
    [keys |-> {"method", "error"}, method |-> "DBSCAN", outlier_count |-> 0,
     outlier_percentage |-> 0, rows_analyzed |-> 0, rows_dropped_nan |-> 0,
     error |-> error]

\* no result: _perform_dbscan has not been called
NoOutlierResult == ErrorOnlyResult(NoneStr)

\* round(x, 2) of the percentage 100 * count / total, in hundredths: the
\* nearest hundredth, the even one at a tie
Round2(count, total) ==
    LET q == (10000 * count) \div total
        r == (10000 * count) % total
    IN  IF 2 * r < total THEN q
        ELSE IF 2 * r > total THEN q + 1
        ELSE IF q % 2 = 0 THEN q ELSE q + 1

\* DataFrame.dropna(): the rows without a missing cell
DropNa(ds) ==
    [ds EXCEPT !.rows = SelectSeq(ds.rows,
        LAMBDA row : \A i \in 1..Len(row) : row[i].kind # "nan")]

FracAdd(x, y) == Frac(x.n * y.d + y.n * x.d, x.d * y.d)
FracSub(x, y) == Frac(x.n * y.d - y.n * x.d, x.d * y.d)
FracMul(x, y) == Frac(x.n * y.n, x.d * y.d)
FracLeq(x, y) == x.n * y.d <= y.n * x.d

RECURSIVE FracSum(_)
FracSum(xs) == IF xs = <<>> THEN Num(0) ELSE FracAdd(Head(xs), FracSum(Tail(xs)))

\* StandardScaler: the variance of a column (a column of variance 0 is
\* scaled by 1), and the square of the difference of two scaled cells
Variance(cells) ==
    LET n    == Len(cells)
        mean == FracMul(FracSum(cells), Frac(1, n))
        sq   == [i \in 1..n |-> FracMul(FracSub(cells[i], mean), FracSub(cells[i], mean))]
    IN  FracMul(FracSum(sq), Frac(1, n))

ScaledDiff2(cells, i, k) ==
    LET var == Variance(cells)
        d   == FracSub(cells[i], cells[k])
    IN  IF var.n = 0 THEN FracMul(d, d)
        ELSE FracMul(FracMul(d, d), Frac(var.d, var.n))

\* the square of the Euclidean distance of the scaled rows i and k
Distance2(ds, i, k) ==
    FracSum([j \in 1..Len(ds.columns) |-> ScaledDiff2(Column(ds, ds.columns[j]), i, k)])

\* DBSCAN(eps, min_samples).fit_predict: the rows labelled -1 are those that
\* are no core point and have no core point within eps
Neighbours(ds, i, eps) ==
    {k \in 1..Len(ds.rows) : FracLeq(Distance2(ds, i, k), FracMul(eps, eps))}
CorePoint(ds, i, eps, min_samples) == Cardinality(Neighbours(ds, i, eps)) >= min_samples
Noise(ds, eps, min_samples) ==
    {i \in 1..Len(ds.rows) :
        \A k \in Neighbours(ds, i, eps) : ~CorePoint(ds, k, eps, min_samples)}

\* DBSCAN validates its parameters when it fits: eps must be positive
DbscanRaises(params) == GetEps(params).n <= 0

\* the mutant of TooFewRows: the check is left out
TooFewRowsNever(clean_count, params) == FALSE

\* line 234: len(numeric_df_clean) < params.get('min_samples', 5)
TooFewRows(clean_count, params) == clean_count < GetMinSamples(params)

\* lines 211-278: _perform_dbscan(numeric_df, params): the dict returned and
\* the calls made on the scaler and on DBSCAN
PerformDbscan(numeric_df, params) ==
    LET original_count   == Len(numeric_df.rows)
        numeric_df_clean == DropNa(numeric_df)
        clean_count      == Len(numeric_df_clean.rows)
        dropped_count    == original_count - clean_count
        outlier_count    == Cardinality(Noise(numeric_df_clean, GetEps(params),
                                              GetMinSamples(params)))
    IN  IF numeric_df.columns = <<>> \/ numeric_df.rows = <<>>
          THEN [results |-> [InitialResults EXCEPT
                                !.error = "Input numeric DataFrame is empty."],
                ops |-> <<>>]
        ELSE IF TooFewRows(clean_count, params)
          THEN [results |-> [InitialResults EXCEPT
                                !.error = "Not enough non-NaN data points for DBSCAN min_samples."],
                ops |-> <<>>]
        ELSE IF DbscanRaises(params)
          THEN [results |-> [InitialResults EXCEPT
                                !.error = "ValueError during DBSCAN (check parameters/data)"],
                ops |-> <<"StandardScaler.fit_transform", "DBSCAN.fit_predict">>]
        ELSE [results |-> [InitialResults EXCEPT
                              !.outlier_count = outlier_count,
                              !.outlier_percentage =
                                  IF clean_count > 0 THEN Round2(outlier_count, clean_count)
                                                     ELSE 0,
                              !.rows_analyzed = clean_count,
                              !.rows_dropped_nan = dropped_count],
              ops |-> <<"StandardScaler.fit_transform", "DBSCAN.fit_predict">>]

\* the mutant of IsEmpty: a frame without rows is profiled like any other
IsEmptyNever(ds) == FALSE

\* DataFrame.empty: an axis of length 0
IsEmpty(ds) == Len(ds.rows) = 0 \/ Len(ds.columns) = 0

\* profile's return value None, in the shape of a report
NoneReport ==
    [isNone |-> TRUE,
     basic_info |-> [rows |-> 0, columns |-> 0, duplicates |-> 0],
     data_types |-> <<>>, missing_values |-> <<>>, cardinality |-> <<>>,
     descriptive_stats |-> <<>>,
     correlation_matrix |-> "None", skewness |-> "None", kurtosis |-> "None",
     outlier_detection |-> NoOutlierResult]

\* lines 52-59: the report for an empty frame
EmptyReport ==
    [isNone |-> FALSE,
     basic_info |-> [rows |-> 0, columns |-> 0, duplicates |-> 0],
     data_types |-> <<>>, missing_values |-> <<>>, cardinality |-> <<>>,
     descriptive_stats |-> <<>>,
     correlation_matrix |-> "None", skewness |-> "None", kurtosis |-> "None",
     outlier_detection |-> ErrorOnlyResult("DataFrame is empty")]

\* str(dtype) of a column: a numeric column holds int64 unless a cell is
\* missing or has a fractional part
DtypeOf(ds, col) ==
    LET cells == Column(ds, col)
        kind  == KindOf(ds, col)
    IN  IF kind = "num"
          THEN IF \A r \in 1..Len(cells) : cells[r].kind = "num" /\ cells[r].d = 1
                 THEN Int64Dtype ELSE Float64Dtype
        ELSE IF kind = "dt" THEN DatetimeDtype
        ELSE ObjectDtype

\* df.isnull().sum() for one column
MissingCount(ds, col) ==
    Cardinality({r \in 1..Len(ds.rows) : Column(ds, col)[r].kind = "nan"})

\* the mutant of DuplicatedCount: every row that has a twin is counted
DuplicatedCountAll(ds) ==
    Cardinality({i \in 1..Len(ds.rows) :
        \E j \in 1..Len(ds.rows) : j # i /\ ds.rows[j] = ds.rows[i]})

\* line 69: df.duplicated().sum(), the rows equal to an earlier row
DuplicatedCount(ds) ==
    Cardinality({i \in 1..Len(ds.rows) : \E j \in 1..(i - 1) : ds.rows[j] = ds.rows[i]})

\* line 116: df.nunique() for one column, the distinct values that are not
\* missing
NUnique(ds, col) ==
    Cardinality({Column(ds, col)[r] : r \in 1..Len(ds.rows)} \ {NaN})

\* lines 81-87: one entry of missing_values
MissingEntry(col, count, rows) ==
    [col |-> col, count |-> count,
     percentage |-> IF rows > 0 THEN Round2(count, rows) ELSE 0]

\* df.select_dtypes(include=...): the columns of the kinds given
SelectKinds(ds, kinds) ==
    DropColumns(ds, {ds.columns[i] : i \in {j \in 1..Len(ds.columns) : ds.kinds[j] \notin kinds}})

\* lines 48-181: profile(df, dbscan_params): the report returned and the
\* calls made on the scaler and on DBSCAN.  The memory estimate and the
\* figures of the statistics are left out: a group of statistics is "dict"
\* when it is computed and "None" when it is not.
ProfileOutcome(ds, params) ==
    LET cols       == ds.columns
        numeric_df == SelectKinds(ds, {"num"})
        object_df  == SelectKinds(ds, {"obj"})
        dbscan     == PerformDbscan(numeric_df, params)
        hasNumeric == numeric_df.columns # <<>>
    IN  IF ds.isNone THEN [report |-> NoneReport, ops |-> <<>>]
        ELSE IF IsEmpty(ds) THEN [report |-> EmptyReport, ops |-> <<>>]
        ELSE [report |->
                [isNone |-> FALSE,
                 basic_info |-> [rows |-> Len(ds.rows), columns |-> Len(cols),
                                 duplicates |-> DuplicatedCount(ds)],
                 data_types |-> [i \in 1..Len(cols) |->
                                    [col |-> cols[i], dtype |-> DtypeOf(ds, cols[i])]],
                 missing_values |-> [i \in 1..Len(cols) |->
                                        MissingEntry(cols[i], MissingCount(ds, cols[i]),
                                                     Len(ds.rows))],
                 cardinality |-> [i \in 1..Len(cols) |->
                                     [col |-> cols[i], n |-> NUnique(ds, cols[i])]],
                 descriptive_stats |->
                     << IF hasNumeric THEN "dict" ELSE "None",
                        IF object_df.columns # <<>> THEN "dict" ELSE "None" >>,
                 correlation_matrix |->
                     IF Len(numeric_df.columns) > 1 THEN "dict" ELSE "None",
                 skewness |-> IF hasNumeric THEN "dict" ELSE "None",
                 kurtosis |-> IF hasNumeric THEN "dict" ELSE "None",
                 outlier_detection |->
                     IF hasNumeric THEN dbscan.results
                     ELSE ErrorOnlyResult("No numeric columns found in the dataset.")],
              ops |-> IF hasNumeric THEN dbscan.ops ELSE <<>>]

InitProfileIdle ==
    /\ profPc = "idle"
    /\ prof_df = NoneFrame
    /\ dbscan_params = DbscanParams(TRUE, DEFAULT_DBSCAN_EPS_N, DEFAULT_DBSCAN_EPS_D,
                                    TRUE, DEFAULT_DBSCAN_MIN_SAMPLES)
    /\ profile_report = NoneReport
    /\ dbscan_results = NoOutlierResult
    /\ dbscanOps = <<>>
    /\ sugPc = "idle"
    /\ working_df = NoneFrame
    /\ suggestions = <<>>
    /\ sugHistory = <<>>

\* a call of profile(df, dbscan_params); app.py keeps the report for the
\* session (line 269) next to a copy of the frame (line 263)
Profile ==
    /\ UNCHANGED notProf
    /\ profPc = "profile"
    /\ LET out == ProfileOutcome(prof_df, dbscan_params)
       IN  /\ profile_report' = out.report
           /\ dbscanOps' = out.ops
    /\ profPc' = "profiled"
    /\ sugPc' = "ready"
    /\ UNCHANGED <<prof_df, dbscan_params, dbscan_results, working_df, suggestions,
                   sugHistory>>

\* a call of _perform_dbscan(numeric_df, params)
Dbscan ==
    /\ UNCHANGED notProf
    /\ profPc = "dbscan"
    /\ LET out == PerformDbscan(prof_df, dbscan_params)
       IN  /\ dbscan_results' = out.results
           /\ dbscanOps' = out.ops
    /\ profPc' = "clustered"
    /\ UNCHANGED <<prof_df, dbscan_params, profile_report, sugPc, working_df,
                   suggestions, sugHistory>>

-----------------------------------------------------------------------------
(***************************************************************************)
(*      CleaningAgent.suggest_cleaning_steps (cleaning_agent.py lines 32-166)*)
(***************************************************************************)
\* dict.get(col) on a per-column dict: the entry of col, None when absent
HasEntry(entries, col) == \E i \in 1..Len(entries) : entries[i].col = col
EntryOf(entries, col) == entries[CHOOSE i \in 1..Len(entries) : entries[i].col = col]
DtypeGet(data_types, col) ==
    IF HasEntry(data_types, col) THEN EntryOf(data_types, col).dtype ELSE NoneDtype

\* one proposal; details is {} except for its key fill_value
Suggestion(column, suggestion, action_code, fill_value) ==
    [column |-> column, suggestion |-> suggestion, action_code |-> action_code,
     fill_value |-> fill_value]

\* the mutant of VeryHighMissing: the first rule is never taken
VeryHighMissingNever(missing_perc) == FALSE

\* line 67: missing_perc > 90
VeryHighMissing(missing_perc) == missing_perc > 9000

\* the mutant of ModerateMissing: 30 itself still counts as moderate
ModerateMissingInclusive(missing_perc) == missing_perc <= 3000

\* lines 77 and 99: missing_perc < 30
ModerateMissing(missing_perc) == missing_perc < 3000

\* line 76: 'int' in col_dtype or 'float' in col_dtype
NumericDtype(col_dtype) ==
    Contains(col_dtype, <<"i", "n", "t">>) \/ Contains(col_dtype, <<"f", "l", "o", "a", "t">>)

\* line 98: 'object' in col_dtype or 'string' in col_dtype or 'category' in col_dtype
CategoricalDtype(col_dtype) ==
    \/ Contains(col_dtype, <<"o", "b", "j", "e", "c", "t">>)
    \/ Contains(col_dtype, <<"s", "t", "r", "i", "n", "g">>)
    \/ Contains(col_dtype, <<"c", "a", "t", "e", "g", "o", "r", "y">>)

\* the mutant of NumericImputations: the two proposals change places
NumericImputationsSwapped(col) ==
    << Suggestion(col, "Impute with Mean", "impute_mean", AbsentKey),
       Suggestion(col, "Impute with Median", "impute_median", AbsentKey) >>

\* lines 78-87: the two proposals for a numeric column
NumericImputations(col) ==
    << Suggestion(col, "Impute with Median", "impute_median", AbsentKey),
       Suggestion(col, "Impute with Mean", "impute_mean", AbsentKey) >>

\* lines 100-109: the two proposals for a categorical column
CategoricalImputations(col) ==
    << Suggestion(col, "Impute with Mode (Most Frequent)", "impute_mode", AbsentKey),
       Suggestion(col, "Impute with Constant 'Missing'", "impute_constant", "Missing") >>

\* lines 60-116: the proposals for one entry of missing_values; the test
\* 'int' in col_dtype raises TypeError when data_types has no entry for col
ColumnRaises(entry, data_types) ==
    /\ entry.count > 0
    /\ ~VeryHighMissing(entry.percentage)
    /\ DtypeGet(data_types, entry.col) = NoneDtype

ColumnSuggestions(entry, data_types) ==
    LET col == entry.col
        missing_perc == entry.percentage
        missing_count == entry.count
        col_dtype == DtypeGet(data_types, col)
    IN  IF ~(missing_count > 0) THEN <<>>
        ELSE IF VeryHighMissing(missing_perc)
          THEN <<Suggestion(col, "Drop Column (Very High Missing %)", "drop_column", AbsentKey)>>
        ELSE IF NumericDtype(col_dtype)
          THEN IF ModerateMissing(missing_perc) THEN NumericImputations(col)
               ELSE <<Suggestion(col, "Drop Column (High Missing %)", "drop_column", AbsentKey)>>
        ELSE IF CategoricalDtype(col_dtype)
          THEN IF ModerateMissing(missing_perc) THEN CategoricalImputations(col)
               ELSE <<Suggestion(col, "Drop Column (High Missing %)", "drop_column", AbsentKey)>>
        ELSE <<>>

RECURSIVE MissingValueSuggestions(_, _)
\* lines 59-116: the loop over missing_values.items()
MissingValueSuggestions(missing_values, data_types) ==
    IF missing_values = <<>> THEN <<>>
    ELSE ColumnSuggestions(Head(missing_values), data_types)
         \o MissingValueSuggestions(Tail(missing_values), data_types)

\* the mutant of HasDuplicates: a single duplicate row is not reported
HasDuplicatesSeveral(duplicate_count) == duplicate_count > 1

\* line 120: duplicate_count > 0
HasDuplicates(duplicate_count) == duplicate_count > 0

\* lines 118-128: the proposal for duplicate rows
DuplicateSuggestions(basic_info) ==
    IF HasDuplicates(basic_info.duplicates)
      THEN <<Suggestion("ALL", "Remove Duplicate Rows", "remove_duplicates", AbsentKey)>>
      ELSE <<>>

\* lines 46-165: suggest_cleaning_steps(profile_report, df)
SuggestCleaningSteps(report, frame) ==
    IF report.isNone \/ frame.isNone THEN [raised |-> FALSE, suggestions |-> <<>>]
    ELSE IF \E i \in 1..Len(report.missing_values) :
                ColumnRaises(report.missing_values[i], report.data_types)
      THEN [raised |-> TRUE, suggestions |-> <<>>]
    ELSE [raised |-> FALSE,
          suggestions |-> MissingValueSuggestions(report.missing_values, report.data_types)
                          \o DuplicateSuggestions(report.basic_info)]

\* the suggest endpoint may be called again on the same session
MaxSuggestCalls == 2

\* a call of suggest_cleaning_steps with the session's report
Suggest ==
    /\ UNCHANGED notProf
    /\ sugPc \in {"ready", "done"}
    /\ Len(sugHistory) < MaxSuggestCalls
    /\ LET out == SuggestCleaningSteps(profile_report, working_df)
       IN  IF out.raised
             THEN /\ sugPc' = "raised"
                  /\ UNCHANGED <<suggestions, sugHistory>>
             ELSE /\ sugPc' = "done"
                  /\ suggestions' = out.suggestions
                  /\ sugHistory' = Append(sugHistory, out.suggestions)
    /\ UNCHANGED <<profPc, prof_df, dbscan_params, profile_report, dbscan_results,
                   dbscanOps, working_df>>

-----------------------------------------------------------------------------
(***************************************************************************)
(*      The frames, the parameters and the reports the calls are given      *)
(***************************************************************************)
\* the cells and the rows of the frames that are profiled
MaxRows == 3

NumCells == {Num(1), Num(2), NaN}
ObjCells == {Str("x"), Str("y"), NaN}

RowsOver(cellSets) ==
    UNION {[1..n -> {row \in [1..Len(cellSets) -> UNION SeqToSet(cellSets)] :
                        \A i \in 1..Len(cellSets) : row[i] \in cellSets[i]}]
           : n \in 0..MaxRows}

FrameOf(columns, kinds, rows) ==
    [isNone |-> FALSE, columns |-> columns, kinds |-> kinds, rows |-> rows]

\* the example of a profile: age [25, null, 30, 25], city [A, B, A, A]
ExampleFrame ==
    FrameOf(<<"a", "b">>, <<"num", "obj">>,
            << <<Num(25), Str("x")>>, <<NaN, Str("y")>>,
               <<Num(30), Str("x")>>, <<Num(25), Str("x")>> >>)

ProfileFrames ==
    {FrameOf(<<"a", "b">>, <<"num", "obj">>, rows) : rows \in RowsOver(<<NumCells, ObjCells>>)}
    \cup {FrameOf(<<"b">>, <<"obj">>, rows) : rows \in RowsOver(<<ObjCells>>)}
    \cup {FrameOf(<<>>, <<>>, <<>>), FrameOf(<<>>, <<>>, << <<>>, <<>> >>),
          ExampleFrame, NoneFrame}

NumericFrames ==
    {FrameOf(<<"a">>, <<"num">>, rows) : rows \in RowsOver(<<NumCells>>)}
    \cup {FrameOf(<<"a", "c">>, <<"num", "num">>, rows) :
             rows \in RowsOver(<<NumCells, {Num(0), Num(7), NaN}>>)}
    \cup {FrameOf(<<>>, <<>>, <<>>),
          FrameOf(<<"a">>, <<"num">>,
                  << <<Num(1)>>, <<Num(2)>>, <<Num(2)>>, <<Num(1)>>, <<Num(40)>>, <<NaN>> >>)}

ParamSamples ==
    { DbscanParams(TRUE, DEFAULT_DBSCAN_EPS_N, DEFAULT_DBSCAN_EPS_D,
                   TRUE, DEFAULT_DBSCAN_MIN_SAMPLES),
      DbscanParams(TRUE, 1, 2, TRUE, 2),
      DbscanParams(TRUE, 3, 2, TRUE, 2),
      DbscanParams(TRUE, 0, 1, TRUE, 2),
      DbscanParams(FALSE, 0, 1, FALSE, 0) }

InitProfile ==
    /\ profPc \in {"profile", "dbscan"}
    /\ prof_df \in IF profPc = "profile" THEN ProfileFrames ELSE NumericFrames
    /\ dbscan_params \in ParamSamples
    /\ profile_report = NoneReport
    /\ dbscan_results = NoOutlierResult
    /\ dbscanOps = <<>>
    /\ sugPc = "idle"
    /\ working_df = prof_df
    /\ suggestions = <<>>
    /\ sugHistory = <<>>

\* the reports suggest_cleaning_steps is given: those profile builds for a
\* frame of rows rows whose column i has the dtype and the count of missing
\* cells of stats[i]
MaxReportColumns == 2

ReportColumnNames == <<"a", "b", "c", "d">>

RowCountSamples == {7, 10, 11, 30000}
MissingCountSamples == {0, 1, 3, 9, 10}
DuplicateCountSamples == {0, 1, 3}

\* a column with a missing cell holds no int64 and no bool
ColumnStats(rows) ==
    {st \in [dtype : {Int64Dtype, Float64Dtype, ObjectDtype, BoolDtype, DatetimeDtype},
             count : MissingCountSamples] :
        /\ st.count <= rows
        /\ st.count > 0 => st.dtype \notin {Int64Dtype, BoolDtype}}

ReportOf(rows, duplicates, stats) ==
    [isNone |-> FALSE,
     basic_info |-> [rows |-> rows, columns |-> Len(stats), duplicates |-> duplicates],
     data_types |-> [i \in 1..Len(stats) |->
                        [col |-> ReportColumnNames[i], dtype |-> stats[i].dtype]],
     missing_values |-> [i \in 1..Len(stats) |->
                            MissingEntry(ReportColumnNames[i], stats[i].count, rows)],
     cardinality |-> <<>>,
     descriptive_stats |-> <<>>,
     correlation_matrix |-> "None", skewness |-> "None", kurtosis |-> "None",
     outlier_detection |-> NoOutlierResult]

ReportSamples ==
    UNION {{ReportOf(rows, duplicates, stats) :
               duplicates \in DuplicateCountSamples,
               stats \in UNION {[1..n -> ColumnStats(rows)] : n \in 0..MaxReportColumns}}
           : rows \in RowCountSamples}

InitSuggest ==
    /\ profPc = "idle"
    /\ prof_df = NoneFrame
    /\ dbscan_params = DbscanParams(TRUE, DEFAULT_DBSCAN_EPS_N, DEFAULT_DBSCAN_EPS_D,
                                    TRUE, DEFAULT_DBSCAN_MIN_SAMPLES)
    /\ profile_report \in ReportSamples \cup {NoneReport}
    /\ dbscan_results = NoOutlierResult
    /\ dbscanOps = <<>>
    /\ sugPc = "ready"
    /\ working_df \in {NoneFrame, ExampleFrame}
    /\ suggestions = <<>>
    /\ sugHistory = <<>>

-----------------------------------------------------------------------------
(***************************************************************************)
(*  The checks of _parse_and_validate_json on a parsed object              *)
(*  (nl_to_viz_agent.py lines 204-228), applied to objects of every shape  *)
(***************************************************************************)
\* values a completion may put in the fields of its JSON object; null is
\* NoneStr
PlotTypeValues    == SeqToSet(SUPPORTED_PLOT_TYPES) \cup {"pie", NoneStr}
AxisValues        == {NoneStr, "a", "b", "zz"}
ColorValues       == {NoneStr, "a", "zz"}
SizeValues        == {NoneStr, "b"}
AggregationValues == {NoneStr, "count", "sum"}
ErrorValues       == {NoneStr, "Ambiguous request"}

ParamObjects ==
    { [plot_type |-> pt, x_col |-> x, y_col |-> y, color_col |-> c,
       size_col |-> z, aggregation |-> agg, error |-> err] :
        pt \in PlotTypeValues, x \in AxisValues, y \in AxisValues,
        c \in ColorValues, z \in SizeValues, agg \in AggregationValues,
        err \in ErrorValues }

\* line 213: the keys of schema_dict["columns"], or [] when the schema is
\* missing
SchemaColumnSamples == {VizSchemaColumns, <<>>}

VpPending == [done |-> FALSE, params |-> NoneParams, error |-> NoneMsg]

InitParamsIdle ==
    /\ vpParams = NoParams
    /\ vpColumns = <<>>
    /\ vpResult = VpPending

InitParams ==
    /\ vpParams \in ParamObjects
    /\ vpColumns \in SchemaColumnSamples
    /\ vpResult = VpPending

\* lines 204-228 run on the parsed object
CheckParams ==
    /\ UNCHANGED notVp
    /\ ~vpResult.done
    /\ LET r == ValidateParams(vpParams, vpColumns)
       IN  vpResult' = [done |-> TRUE, params |-> r.params, error |-> r.error]
    /\ UNCHANGED <<vpParams, vpColumns>>

-----------------------------------------------------------------------------
(***************************************************************************)
(*  apply_cleaning_endpoint and apply_features_endpoint (app.py lines      *)
(*  500-579).  The handler loads the working dataset, calls the agent      *)
(*  (the steps of apply_cleaning_steps or apply_features above, run on the *)
(*  loaded frame), saves the frame returned as the working dataset and     *)
(*  then loads it into the session's database table.                       *)
(*  stored_working is the frame kept as the working dataset (None when no  *)
(*  path is kept), db_table is the frame whose load into the table was     *)
(*  committed last.                                                        *)
(***************************************************************************)
InitEndpointIdle ==
    /\ epPc = "idle"
    /\ stored_working = NoneFrame
    /\ db_table = NoneFrame
    /\ epResponse = "none"

\* the handler has passed its early returns (lines 503-513): a working
\* dataset was loaded and the list given is not empty.  The upload stored
\* the same frame as the working dataset and in the table (lines 251, 263).
InitEndpoint ==
    /\ epPc = "called"
    /\ stored_working = (IF clnPc = "start" THEN df ELSE feat_df)
    /\ ~stored_working.isNone
    /\ clnPc = "start" => actions # <<>>
    /\ featPc = "start" => selected_features # <<>>
    /\ db_table = stored_working
    /\ epResponse = "none"

\* save_df, lines 122-131: the frame is written and its path kept, or the
\* write fails and the path is removed from the session
SaveDf(modified_df, saveOk) == IF saveOk THEN modified_df ELSE NoneFrame

\* DatabaseAgent.create_table_from_df, database_agent.py lines 110-226:
\* (None, None) for an empty frame, for a failed connection and for a failed
\* transaction, which is rolled back; the table is replaced otherwise
CreateTableFromDf(modified_df, dbOk) ==
    ~modified_df.isNone /\ ~IsEmpty(modified_df) /\ dbOk

\* lines 516-540 and 557-579, with the frame the agent returned
StoreModified(modified_df, saveOk, dbOk, failure) ==
    /\ stored_working' = SaveDf(modified_df, saveOk)
    /\ IF CreateTableFromDf(modified_df, dbOk)
         THEN /\ db_table' = modified_df
              /\ epResponse' = "200"
         ELSE /\ UNCHANGED db_table
              /\ epResponse' = failure

\* apply_cleaning_endpoint from the return of apply_cleaning_steps on
\* (lines 515-540)
ApplyCleaningEndpoint(saveOk, dbOk) ==
    /\ UNCHANGED notEp
    /\ epPc = "called"
    /\ clnPc \in {"done", "raised"}
    /\ epPc' = "answered"
    /\ IF clnPc = "raised"
         THEN /\ epResponse' = "500 Failed to apply actions"
              /\ UNCHANGED <<stored_working, db_table>>
         ELSE StoreModified(cleaned_df, saveOk, dbOk,
                            "500 Failed to update data in database after cleaning.")

\* apply_features_endpoint from the return of apply_features on
\* (lines 556-579)
ApplyFeaturesEndpoint(saveOk, dbOk) ==
    /\ UNCHANGED notEp
    /\ epPc = "called"
    /\ featPc = "done"
    /\ epPc' = "answered"
    /\ StoreModified(engineered_df, saveOk, dbOk,
                     "500 Failed to update data in database after FE.")

-----------------------------------------------------------------------------
(***************************************************************************)
(*                           The specifications                            *)
(***************************************************************************)
InitSpecViz == InitViz /\ InitSql /\ InitValidateIdle /\ InitCleaningIdle
               /\ InitFeaturesIdle /\ InitProfileIdle /\ InitParamsIdle /\ InitEndpointIdle

NextViz ==
    \/ \E clientAvailable \in BOOLEAN, inputsOk \in BOOLEAN :
           VizBegin(clientAvailable, inputsOk)
    \/ \E out \in LlmOutcomes : VizAttempt(out)

SpecViz == InitSpecViz /\ [][NextViz]_vars

InitSpecSql == InitViz /\ InitSql /\ InitValidateIdle /\ InitCleaningIdle
               /\ InitFeaturesIdle /\ InitProfileIdle /\ InitParamsIdle /\ InitEndpointIdle

NextSql ==
    \/ \E nl_query \in {"q", NoneStr}, schemaOk \in BOOLEAN, out \in SqlLlmOutcomes :
           GenerateQuery(nl_query, schemaOk, out)
    \/ \E bodyIsDict \in BOOLEAN, bodySql \in BodySqlSamples, hasLlmConfig \in BOOLEAN :
           ExecBegin(bodyIsDict, bodySql, hasLlmConfig)
    \/ \E dbOut \in DbOutcomes : ExecStore(dbOut)
    \/ \E schemaOk \in BOOLEAN, out \in SqlLlmOutcomes : ExecRegen(schemaOk, out)
    \/ \E dbOut \in DbOutcomes : DownloadQueryResultCsv(dbOut)

SpecSql == InitSpecSql /\ [][NextSql]_vars

InitSpecValidate == InitViz /\ InitSql /\ InitValidate /\ InitCleaningIdle
                    /\ InitFeaturesIdle /\ InitProfileIdle /\ InitParamsIdle /\ InitEndpointIdle

NextValidate == Validate

SpecValidate == InitSpecValidate /\ [][NextValidate]_vars

InitSpecCleaning == InitViz /\ InitSql /\ InitValidateIdle /\ InitCleaning
                    /\ InitFeaturesIdle /\ InitProfileIdle /\ InitParamsIdle /\ InitEndpointIdle

NextCleaning ==
    \/ ClnStart
    \/ ClnDedup
    \/ ClnDrop
    \/ ClnRemaining

SpecCleaning == InitSpecCleaning /\ [][NextCleaning]_vars

\* both apply operations: either apply_cleaning_steps or apply_features runs
InitSpecApply ==
    /\ InitViz /\ InitSql /\ InitValidateIdle
    /\ \/ InitCleaning /\ InitFeaturesIdle
       \/ InitCleaningIdle /\ InitFeatures
    /\ InitProfileIdle
    /\ InitParamsIdle /\ InitEndpointIdle
NextApply ==
    \/ ClnStart
    \/ ClnDedup
    \/ ClnDrop
    \/ ClnRemaining
    \/ FeatStart
    \/ FeatStep
SpecApply == InitSpecApply /\ [][NextApply]_vars

\* profile and _perform_dbscan on frames, and suggest_cleaning_steps on the
\* report of the session
InitSpecProfile == InitViz /\ InitSql /\ InitValidateIdle /\ InitCleaningIdle
                   /\ InitFeaturesIdle /\ InitProfile /\ InitParamsIdle /\ InitEndpointIdle
NextProfile ==
    \/ Profile
    \/ Dbscan
    \/ Suggest
SpecProfile == InitSpecProfile /\ [][NextProfile]_vars

\* suggest_cleaning_steps on the reports profile builds
InitSpecSuggest == InitViz /\ InitSql /\ InitValidateIdle /\ InitCleaningIdle
                   /\ InitFeaturesIdle /\ InitSuggest /\ InitParamsIdle /\ InitEndpointIdle
NextSuggest == Suggest
SpecSuggest == InitSpecSuggest /\ [][NextSuggest]_vars

\* the checks on a parsed parameter object, for every object
InitSpecParams == InitViz /\ InitSql /\ InitValidateIdle /\ InitCleaningIdle
                  /\ InitFeaturesIdle /\ InitProfileIdle /\ InitParams /\ InitEndpointIdle
NextParams == CheckParams
SpecParams == InitSpecParams /\ [][NextParams]_vars

\* the apply requests: the agent's steps, then the handler's stores
InitSpecEndpoint ==
    /\ InitViz /\ InitSql /\ InitValidateIdle
    /\ \/ InitCleaning /\ InitFeaturesIdle
       \/ InitCleaningIdle /\ InitFeatures
    /\ InitProfileIdle /\ InitParamsIdle
    /\ InitEndpoint
NextEndpoint ==
    \/ ClnStart
    \/ ClnDedup
    \/ ClnDrop
    \/ ClnRemaining
    \/ FeatStart
    \/ FeatStep
    \/ \E saveOk \in BOOLEAN, dbOk \in BOOLEAN : ApplyCleaningEndpoint(saveOk, dbOk)
    \/ \E saveOk \in BOOLEAN, dbOk \in BOOLEAN : ApplyFeaturesEndpoint(saveOk, dbOk)
SpecEndpoint == InitSpecEndpoint /\ [][NextEndpoint]_vars

-----------------------------------------------------------------------------
(***************************************************************************)
(*                  Properties of generate_viz_params                      *)
(***************************************************************************)
\* the error an attempt failed with, read off what the capability returned
AttemptError(rec) ==
    CASE rec.branch = "llm_error" -> rec.llm_error
      [] rec.branch = "invalid"   -> rec.validated.error
      [] rec.branch = "empty"     -> <<"LLM empty content.">>
      [] OTHER                    -> NoneMsg

AllAttemptsFailed == \A k \in DOMAIN vizTrace : vizTrace[k].branch # "success"

\* C3: generate_viz_params makes at most MAX_RETRIES + 1 completion calls;
\* when every attempt fails it makes exactly MAX_RETRIES + 1 calls and then
\* returns failure.
C3_AttemptBudget ==
    /\ vizCalls = Len(vizTrace)
    /\ vizCalls <= MAX_RETRIES + 1
    /\ (vizPc = "loop") => (vizCalls <= MAX_RETRIES /\ AllAttemptsFailed)
    /\ (vizPc = "done" /\ vizTrace # <<>> /\ AllAttemptsFailed) =>
           /\ vizCalls = MAX_RETRIES + 1
           /\ vizResult.params = NoneParams
           /\ Truthy(vizResult.error)

\* every attempt of the budget was made and failed
C3_Witness ==
    /\ vizPc = "done"
    /\ vizCalls = MAX_RETRIES + 1
    /\ AllAttemptsFailed
    /\ vizResult.params = NoneParams

\* C4: after a validation failure at attempt k, the prompt of attempt k+1
\* holds the raw output of attempt k verbatim and the validation error; if
\* attempt k+1 validates, its parameters are the result.
C4_ValidationFeedback ==
    \A k \in DOMAIN vizTrace :
        (k < Len(vizTrace) /\ vizTrace[k].branch = "invalid") =>
            LET nxt == vizTrace[k + 1]
            IN  /\ nxt.messages.template = "retry"
                /\ nxt.messages.previous_params_str = vizTrace[k].raw_json_str
                /\ nxt.messages.error_feedback = vizTrace[k].validated.error
                /\ (nxt.branch = "success") =>
                       /\ vizPc = "done"
                       /\ vizResult = [params |-> nxt.validated.params,
                                       error |-> NoneMsg]

\* a validation failure followed by an attempt that validates
C4_Witness ==
    /\ vizPc = "done"
    /\ Len(vizTrace) = 2
    /\ vizTrace[1].branch = "invalid"
    /\ vizTrace[2].branch = "success"

\* C5: a capability error at attempt k with budget remaining is followed by
\* attempt k+1 whose prompt contains the capability's error message; with no
\* budget remaining the operation returns failure carrying that message.
C5_CapabilityErrorFedBack ==
    \A k \in DOMAIN vizTrace :
        (vizTrace[k].branch = "llm_error") =>
            IF vizTrace[k].attempt < MAX_RETRIES
              THEN /\ vizPc = "loop" \/ k < Len(vizTrace)
                   /\ (k < Len(vizTrace)) =>
                          MsgContains(vizTrace[k + 1].messages.error_feedback,
                                      vizTrace[k].llm_error)
              ELSE /\ vizPc = "done"
                   /\ vizResult.params = NoneParams
                   /\ MsgContains(vizResult.error, vizTrace[k].llm_error)

\* C6: the first attempt that validates ends the invocation: its parameters
\* are returned with no error and no further completion call is made,
\* whatever budget remains.
C6_FirstSuccessWins ==
    \A k \in DOMAIN vizTrace :
        (vizTrace[k].branch = "success") =>
            /\ k = Len(vizTrace)
            /\ vizCalls = k
            /\ vizPc = "done"
            /\ vizResult = [params |-> vizTrace[k].validated.params,
                            error |-> NoneMsg]

\* attempt 0 validated while a retry was still in the budget
C6_Witness ==
    /\ vizPc = "done"
    /\ Len(vizTrace) = 1
    /\ vizTrace[1].branch = "success"
    /\ vizTrace[1].attempt < MAX_RETRIES

\* C7: when every attempt fails, generate_viz_params returns None and a
\* non-empty error that contains the error of the last attempt; it returns,
\* it does not raise.
C7_ExhaustionReportsLastError ==
    /\ vizPc \in {"idle", "loop", "done"}
    /\ (vizPc = "done" /\ vizTrace # <<>> /\ AllAttemptsFailed) =>
           LET last == vizTrace[Len(vizTrace)]
           IN  /\ vizResult.params = NoneParams
               /\ Truthy(vizResult.error)
               /\ Truthy(AttemptError(last))
               /\ MsgContains(vizResult.error, AttemptError(last))

\* two attempts failed, with different errors
C7_Witness ==
    /\ vizPc = "done"
    /\ Len(vizTrace) = MAX_RETRIES + 1
    /\ AllAttemptsFailed
    /\ AttemptError(vizTrace[1]) # AttemptError(vizTrace[Len(vizTrace)])

-----------------------------------------------------------------------------
(***************************************************************************)
(*                    Properties of the SQL translation                    *)
(***************************************************************************)
\* the keywords of the statements that change data or schema
MutatingKeywords == {KwUpdate, KwDelete, KwInsert, KwDrop, KwTruncate, KwAlter, KwCreate}

\* the text is a statement whose first word is a mutating keyword
StartsWithMutating(text) ==
    \E kw \in MutatingKeywords :
        LET t == Upper(LStrip(text))
        IN  /\ StartsWith(t, kw)
            /\ Len(t) = Len(kw) \/ t[Len(kw) + 1] \in Whitespace \cup {";"}

\* C1: when the completion capability returns a statement that starts with
\* a mutating keyword, generate_sql_query returns (None, error), the request
\* ends in failure, and it made at most max_retries + 1 completion calls.
C1_MutatingNeverAccepted ==
    /\ genCalls <= max_retries + 1
    /\ \A i \in DOMAIN sqlTrace :
           (~Truthy(sqlTrace[i].llm_error) /\ StartsWithMutating(sqlTrace[i].raw)) =>
               /\ sqlTrace[i].sql = <<>>
               /\ Truthy(sqlTrace[i].error)
               /\ i = Len(sqlTrace)
               /\ sqlPc = "done"
               /\ sqlResponse.status = "500"

\* C2: _parse_and_validate_sql returns (None, error) for every text in which
\* update, delete, insert, drop, alter, create or truncate occurs anywhere,
\* in any letter case and whatever follows it, and every text it accepts
\* begins with SELECT (after leading white space).
C2_NoMutatingKeywordAccepted ==
    (valResult # ValPending) =>
        /\ (\E kw \in MutatingKeywords : Contains(Upper(valText), kw)) =>
               (valResult.sql = <<>> /\ Truthy(valResult.error))
        /\ (valResult.sql # <<>>) => StartsWith(Upper(LStrip(valResult.sql)), KwSelect)

-----------------------------------------------------------------------------
(***************************************************************************)
(*                  Properties of apply_cleaning_steps                     *)
(***************************************************************************)
\* the i-th selected action is the first imputation that names its column
FirstImputation(i) ==
    /\ actions[i].action_code \in ImputeCodes
    /\ \A j \in 1..(i - 1) :
           ~(actions[j].action_code \in ImputeCodes
             /\ actions[j].column = actions[i].column)

\* the strategy of an imputation code can be fitted on a column of that kind
Fits(code, kind) ==
    IF code \in {"impute_median", "impute_mean"} THEN kind = "num"
    ELSE IF code = "impute_constant" THEN kind = "obj"
    ELSE TRUE

\* the targets of the selected drop_column actions
DropTargets ==
    {actions[i].column : i \in {j \in DOMAIN actions :
        /\ actions[j].action_code = "drop_column"
        /\ StrTruthy(Get(actions[j].column))}}

RemoveDuplicatesSelected ==
    \E i \in DOMAIN actions : actions[i].action_code = "remove_duplicates"

\* C8: an action that fails or names an absent column does not keep the
\* other selected actions from taking effect: every drop_column whose target
\* exists is applied, and so is every first imputation on an existing column
\* that is not dropped, whatever the other actions name.
C8_OtherActionsTakeEffect ==
    (clnPc = "done" /\ ~df.isNone) =>
        /\ \A i \in DOMAIN actions :
               (actions[i].action_code = "drop_column" /\ HasColumn(df, actions[i].column))
                   => ~HasColumn(cleaned_df, actions[i].column)
        /\ \A i \in DOMAIN actions :
               ( /\ FirstImputation(i)
                 /\ HasColumn(df, actions[i].column)
                 /\ actions[i].column \notin DropTargets
                 /\ Fits(actions[i].action_code,
                         df.kinds[ColIndex(df, actions[i].column)]) )
                   => /\ \E k \in DOMAIN clnOps :
                             clnOps[k] = [op |-> "impute", cols |-> {actions[i].column},
                                          code |-> actions[i].action_code]
                      /\ \A r \in DOMAIN cleaned_df.rows :
                             Column(cleaned_df, actions[i].column)[r].kind # "nan"

\* C9: apply_cleaning_steps returns for every dataset and every list of
\* action records, also records without action_code or column: it never
\* raises.
C9_NeverRaises == clnPc # "raised"

\* C10: whatever the positions of the actions in the list, duplicates are
\* removed in one pass that comes first, the targets of all drop_column
\* actions are dropped together as one set, and the remaining actions are
\* applied after that in the order of the list.
C10_ThreePhases ==
    LET dedups  == {k \in DOMAIN clnOps : clnOps[k].op = "drop_duplicates"}
        drops   == {k \in DOMAIN clnOps : clnOps[k].op = "drop"}
        imputes == {k \in DOMAIN clnOps : clnOps[k].op = "impute"}
        rest    == SelectSeq(actions, LAMBDA a :
                       a.action_code \notin {"remove_duplicates", "drop_column"})
        deduped == IF RemoveDuplicatesSelected THEN DropDuplicates(df) ELSE df
    IN  /\ dedups \subseteq {1}
        /\ Cardinality(drops) <= 1
        /\ \A d \in drops : /\ clnOps[d].cols = DropTargets
                            /\ \A i \in imputes : d < i
        /\ (~df.isNone /\ clnPc \in {"drop", "remaining", "done"}) =>
               /\ (dedups # {}) <=> RemoveDuplicatesSelected
               /\ (clnPc = "drop") => cleaned_df = deduped
        /\ (~df.isNone /\ clnPc \in {"remaining", "done"}) =>
               /\ (drops # {}) <=> (DropTargets # {})
               /\ selected_actions = rest
               /\ (clnIdx = 1) => cleaned_df = DropOutcome(deduped, DropTargets).ds
        /\ \A i \in imputes : \A j \in imputes :
               (i < j) =>
                   \E p \in DOMAIN rest : \E q \in DOMAIN rest :
                       /\ p < q /\ q < clnIdx
                       /\ rest[p].action_code = clnOps[i].code
                       /\ {rest[p].column} = clnOps[i].cols
                       /\ rest[q].action_code = clnOps[j].code
                       /\ {rest[q].column} = clnOps[j].cols

\* remove_duplicates selected last, after an imputation and a drop_column:
\* the three passes still ran in the fixed order
C10_Witness ==
    /\ clnPc = "done"
    /\ ~df.isNone
    /\ Len(actions) = 3
    /\ actions[1].action_code \in ImputeCodes
    /\ actions[2].action_code = "drop_column"
    /\ actions[3].action_code = "remove_duplicates"
    /\ Len(clnOps) = 3
    /\ clnOps[1].op = "drop_duplicates"
    /\ clnOps[2].op = "drop"
    /\ clnOps[3].op = "impute"
    /\ Len(cleaned_df.rows) < Len(df.rows)

\* the operations that imputed column c
ImputedOps(c) == {k \in DOMAIN clnOps : clnOps[k].op = "impute" /\ clnOps[k].cols = {c}}

\* the step of the final loop that handles an action
HandlesAction == clnPc = "remaining" /\ clnIdx <= Len(selected_actions)

\* an imputation action for the same column stands earlier in the list
LaterImputation ==
    \E j \in 1..(clnIdx - 1) :
        /\ selected_actions[j].action_code \in ImputeCodes
        /\ selected_actions[j].column = selected_actions[clnIdx].column

\* the step adds one log line, a 'Skipping' one
AddsSkippingLine ==
    /\ Len(logs') = Len(logs) + 1
    /\ SubSeq(logs', 1, Len(logs)) = logs
    /\ logs'[Len(logs')].msg \in {"Skipping: Imputation already applied.",
                                  "Skipping action: Column no longer exists."}

\* C11 as stated: the first imputation action for a column is
\* applied, and every later imputation action for that column leaves the
\* data unchanged and adds a 'Skipping' log line.
C11_FirstImputationHonoured ==
    [][ (HandlesAction /\ selected_actions[clnIdx].action_code \in ImputeCodes) =>
            IF LaterImputation
              THEN cleaned_df' = cleaned_df /\ AddsSkippingLine
              ELSE HasColumn(cleaned_df, selected_actions[clnIdx].column) =>
                       clnOps' = Append(clnOps,
                           [op |-> "impute", cols |-> {selected_actions[clnIdx].column},
                            code |-> selected_actions[clnIdx].action_code]) ]_vars

\* C11: at most one imputation is applied per column.  An imputation action
\* for a column that an earlier action of the call imputed leaves the data
\* unchanged and adds a 'Skipping' log line; an imputation action for a
\* column not imputed so far is applied if its strategy can be fitted on the
\* column, and otherwise leaves the data unchanged and adds an error line
\* (so an imputation action that follows a failed one is still applied).
C11_OneImputationPerColumn ==
    /\ [](\A c \in AllColumns : Cardinality(ImputedOps(c)) <= 1)
    /\ [][ ( /\ HandlesAction
             /\ selected_actions[clnIdx].action_code \in ImputeCodes
             /\ HasColumn(cleaned_df, selected_actions[clnIdx].column) ) =>
            LET a    == selected_actions[clnIdx]
                cells == Column(cleaned_df, a.column)
                fits == /\ Fits(a.action_code,
                                cleaned_df.kinds[ColIndex(cleaned_df, a.column)])
                        /\ \E r \in DOMAIN cells : cells[r].kind # "nan"
            IN  IF ImputedOps(a.column) # {}
                  THEN /\ cleaned_df' = cleaned_df
                       /\ clnOps' = clnOps
                       /\ AddsSkippingLine
                ELSE IF fits
                  THEN /\ clnOps' = Append(clnOps,
                              [op |-> "impute", cols |-> {a.column},
                               code |-> a.action_code])
                       /\ \A r \in DOMAIN cleaned_df'.rows :
                              Column(cleaned_df', a.column)[r].kind # "nan"
                ELSE /\ cleaned_df' = cleaned_df
                     /\ clnOps' = clnOps
                     /\ Len(logs') = Len(logs) + 1
                     /\ logs'[Len(logs')].msg = "Error applying action" ]_vars

\* three imputation actions for one column: the first failed, the second was
\* applied, the third was skipped
C11_Witness ==
    /\ clnPc = "done"
    /\ Len(logs) = 3
    /\ logs[1].msg = "Error applying action"
    /\ logs[2].msg = "Applied: Imputed missing values"
    /\ logs[3].msg = "Skipping: Imputation already applied."
    /\ logs[1].col = logs[3].col
    /\ logs[2].col = logs[3].col

\* C12: apply_cleaning_steps changes neither the dataset object nor the
\* action list it is given; it works on a copy and returns the copy.
C12_InputsUntouched ==
    /\ [][df' = df /\ actions' = actions]_vars
    /\ []((clnPc = "done" /\ ~df.isNone) => cleaned_df_ref = "copy")

\* the frame returned differs from the frame given, and the list worked on
\* is shorter than the list given
C12_Witness ==
    /\ clnPc = "done"
    /\ ~df.isNone
    /\ cleaned_df # df
    /\ Len(selected_actions) < Len(actions)

-----------------------------------------------------------------------------
(***************************************************************************)
(* Unknown action codes (cleaning_agent.py 241-303,                        *)
(* feature_engineering_agent.py 245-259)                                   *)
(***************************************************************************)
Without(seq, i) == SubSeq(seq, 1, i - 1) \o SubSeq(seq, i + 1, Len(seq))

\* the codes apply_cleaning_steps has a branch for (lines 193, 212, 260-271)
CleaningCodes == {"remove_duplicates", "drop_column"} \cup ImputeCodes

RECURSIVE RemainingResult(_, _, _)
\* lines 241-313 as a function: the frame after the loop over acts
RemainingResult(ds, acts, applied) ==
    IF acts = <<>> THEN ds
    ELSE LET action == Head(acts)
             col  == Get(action.column)
             code == Get(action.action_code)
             fill_val == IF action.fill_value = AbsentKey THEN "Unknown"
                                                          ELSE action.fill_value
             prev_action == IF col \in AllColumns THEN applied[col] ELSE NoneStr
             imputes == /\ HasColumn(ds, col)
                        /\ code \in ImputeCodes
                        /\ ~(StrTruthy(prev_action) /\ StartsWithImpute(prev_action))
                        /\ ~ImputeRaises(ds, col, code)
         IN  IF imputes
               THEN RemainingResult(Impute(ds, col, code, fill_val), Tail(acts),
                                    [applied EXCEPT ![col] = code])
               ELSE RemainingResult(ds, Tail(acts), applied)

\* lines 185-316 as a function: the frame apply_cleaning_steps(ds, acts)
\* returns, for a frame that is not None and records that all have a code
CleaningResult(ds, acts) ==
    LET dedup == AnyRemoveDuplicates(acts)
        ds1   == IF dedup THEN DropDuplicates(ds) ELSE ds
        acts1 == IF dedup THEN SelectSeq(acts, LAMBDA a : a.action_code # "remove_duplicates")
                          ELSE acts
        cols_to_drop == ColsToDrop(acts1)
        ds2   == IF cols_to_drop = {} THEN ds1 ELSE DropOutcome(ds1, cols_to_drop).ds
        acts2 == SelectSeq(acts1, LAMBDA a : a.action_code # "drop_column")
    IN  RemainingResult(ds2, acts2, [c \in AllColumns |-> NoneStr])

RECURSIVE FeaturesResult(_, _, _)
\* lines 159-273 as a function: the frame apply_features(ds, feats) returns
FeaturesResult(ds, feats, fillnaInPlace) ==
    IF feats = <<>> THEN ds
    ELSE FeaturesResult(ApplyFeature(ds, Head(feats), fillnaInPlace).ds, Tail(feats),
                        fillnaInPlace)

UnknownAction(i) ==
    LET code == Get(actions[i].action_code)
    IN  StrTruthy(code) /\ code \notin CleaningCodes

UnknownFeature(i) ==
    LET code == Get(selected_features[i].action_code)
    IN  StrTruthy(code)
        /\ code \notin {"extract_datetime", "polynomial_feature", "interaction_feature"}

\* C17: an action whose non-empty action_code the function has no branch for
\* changes nothing: the dataset returned is the one returned for the list
\* without that action, and the logs hold a line that reports the action as
\* skipped or as not implemented.  This holds for apply_cleaning_steps and
\* for apply_features.
C17_UnknownCodeSkipped ==
    /\ (clnPc = "done" /\ ~df.isNone) =>
          \A i \in 1..Len(actions) : UnknownAction(i) =>
              /\ cleaned_df = CleaningResult(df, Without(actions, i))
              /\ \E k \in 1..Len(logs) :
                    /\ logs[k].code = actions[i].action_code
                    /\ logs[k].col = Get(actions[i].column)
                    /\ logs[k].msg \in {"Warning: Action code not implemented yet.",
                                        "Skipping action: Column no longer exists."}
    /\ (featPc = "done" /\ ~feat_df.isNone) =>
          \A i \in 1..Len(selected_features) : UnknownFeature(i) =>
              /\ engineered_df = FeaturesResult(feat_df, Without(selected_features, i),
                                                ~copy_on_write)
              /\ \E k \in 1..Len(feat_logs) :
                    /\ feat_logs[k].code = selected_features[i].action_code
                    /\ feat_logs[k].name = selected_features[i].name
                    /\ feat_logs[k].msg \in {"Warning: Feature action code not implemented yet.",
                                             "Warning: Skipping feature: Column already exists."}

\* apply_cleaning_steps has returned for a list that holds an unknown code
\* next to an imputation that was carried out
C17_Witness ==
    /\ clnPc = "done"
    /\ ~df.isNone
    /\ \E i \in 1..Len(actions) : UnknownAction(i)
    /\ \E k \in 1..Len(logs) : logs[k].msg = "Warning: Action code not implemented yet."
    /\ \E k \in 1..Len(clnOps) : clnOps[k].op = "impute"
    /\ cleaned_df # df
-----------------------------------------------------------------------------
(***************************************************************************)
(*       suggest_cleaning_steps (cleaning_agent.py lines 59-128)           *)
(***************************************************************************)
\* a call of suggest_cleaning_steps has returned a list for a report and a
\* frame that are not None
Suggested == sugPc = "done" /\ ~profile_report.isNone /\ ~working_df.isNone

\* the proposals of the returned list that are about the missing values of col
ProposalsFor(col) ==
    SelectSeq(suggestions, LAMBDA p : p.column = col /\ p.action_code # "remove_duplicates")

CodesFor(col) == [i \in 1..Len(ProposalsFor(col)) |-> ProposalsFor(col)[i].action_code]

ReportedDtype(col) == DtypeGet(profile_report.data_types, col)

\* C13: for every column of the report whose missing percentage is greater
\* than 90 the returned list holds exactly one proposal, a drop_column, and
\* so no imputation, whatever the dtype of the column.
C13_VeryHighMissingDropped ==
    Suggested =>
        \A i \in 1..Len(profile_report.missing_values) :
            LET entry == profile_report.missing_values[i]
            IN  entry.percentage > 9000 => CodesFor(entry.col) = <<"drop_column">>

\* a list was returned for a report with a datetime column that is more than
\* 90 percent (and less than 100 percent) missing
C13_Witness ==
    /\ Suggested
    /\ \E i \in 1..Len(profile_report.missing_values) :
          LET entry == profile_report.missing_values[i]
          IN  /\ entry.percentage > 9000
              /\ entry.percentage < 10000
              /\ ReportedDtype(entry.col) = DatetimeDtype
              /\ \E k \in 1..Len(suggestions) :
                    /\ suggestions[k].column = entry.col
                    /\ suggestions[k].action_code = "drop_column"

\* C14: for a column whose missing percentage lies strictly between 0 and
\* 30 the returned list holds exactly two proposals: impute_median then
\* impute_mean when the column is numeric (int64, float64), impute_mode then
\* impute_constant with fill_value "Missing" when it is categorical or text
\* (object); and it holds no drop_column for such a column of any dtype.
C14_ModerateMissingImputed ==
    Suggested =>
        \A i \in 1..Len(profile_report.missing_values) :
            LET entry == profile_report.missing_values[i]
                col   == entry.col
            IN  (entry.percentage > 0 /\ entry.percentage < 3000) =>
                    /\ ReportedDtype(col) \in {Int64Dtype, Float64Dtype} =>
                          CodesFor(col) = <<"impute_median", "impute_mean">>
                    /\ ReportedDtype(col) = ObjectDtype =>
                          /\ CodesFor(col) = <<"impute_mode", "impute_constant">>
                          /\ ProposalsFor(col)[2].fill_value = "Missing"
                    /\ \A k \in 1..Len(ProposalsFor(col)) :
                          ProposalsFor(col)[k].action_code # "drop_column"

\* a list was returned for a report with a numeric and a text column that
\* are both between 0 and 30 percent missing
C14_Witness ==
    /\ Suggested
    /\ \E i, j \in 1..Len(profile_report.missing_values) :
          LET x == profile_report.missing_values[i]
              y == profile_report.missing_values[j]
          IN  /\ x.percentage > 0 /\ x.percentage < 3000
              /\ y.percentage > 0 /\ y.percentage < 3000
              /\ ReportedDtype(x.col) = Float64Dtype
              /\ ReportedDtype(y.col) = ObjectDtype
              /\ Len(ProposalsFor(x.col)) = 2
              /\ Len(ProposalsFor(y.col)) = 2

\* C15: for a numeric or categorical/text column whose missing percentage
\* lies in [30, 90], both bounds included, the returned list holds exactly
\* one proposal, a drop_column, and so no imputation.
C15_HighMissingDropped ==
    Suggested =>
        \A i \in 1..Len(profile_report.missing_values) :
            LET entry == profile_report.missing_values[i]
            IN  ( /\ entry.percentage >= 3000
                  /\ entry.percentage <= 9000
                  /\ ReportedDtype(entry.col) \in {Int64Dtype, Float64Dtype, ObjectDtype} ) =>
                    CodesFor(entry.col) = <<"drop_column">>

\* a list was returned for a report with a numeric column that is exactly
\* 30 percent missing and a text column that is exactly 90 percent missing
C15_Witness ==
    /\ Suggested
    /\ \E i, j \in 1..Len(profile_report.missing_values) :
          LET x == profile_report.missing_values[i]
              y == profile_report.missing_values[j]
          IN  /\ x.percentage = 3000 /\ ReportedDtype(x.col) = Float64Dtype
              /\ y.percentage = 9000 /\ ReportedDtype(y.col) = ObjectDtype
              /\ CodesFor(x.col) = <<"drop_column">>
              /\ CodesFor(y.col) = <<"drop_column">>

\* the place of a column in the report
ReportIndex(col) ==
    CHOOSE i \in 1..Len(profile_report.missing_values) :
        profile_report.missing_values[i].col = col

IsDuplicateProposal(p) == p.action_code = "remove_duplicates"

\* C16: the returned list is ordered and determined by the report: the
\* proposals about missing values come in the order of the columns of the
\* report; one remove_duplicates proposal, with column "ALL", is in the list
\* if and only if basic_info.duplicates > 0, and it comes after every
\* proposal about missing values; and two calls with the same report return
\* the same list.
C16_OrderedAndDeterministic ==
    /\ Suggested =>
          /\ \A i, j \in 1..Len(suggestions) :
                (i < j /\ ~IsDuplicateProposal(suggestions[i])
                       /\ ~IsDuplicateProposal(suggestions[j])) =>
                    /\ HasEntry(profile_report.missing_values, suggestions[i].column)
                    /\ HasEntry(profile_report.missing_values, suggestions[j].column)
                    /\ ReportIndex(suggestions[i].column) <= ReportIndex(suggestions[j].column)
          /\ Cardinality({k \in 1..Len(suggestions) : IsDuplicateProposal(suggestions[k])})
                = IF profile_report.basic_info.duplicates > 0 THEN 1 ELSE 0
          /\ \A k \in 1..Len(suggestions) :
                IsDuplicateProposal(suggestions[k]) =>
                    suggestions[k].column = "ALL" /\ k = Len(suggestions)
    /\ \A m, n \in 1..Len(sugHistory) : sugHistory[m] = sugHistory[n]

\* two calls have returned for a report with one duplicate row and two
\* columns that each have proposals
C16_Witness ==
    /\ Suggested
    /\ Len(sugHistory) = 2
    /\ profile_report.basic_info.duplicates = 1
    /\ Len(suggestions) >= 4
    /\ \E i, j \in 1..Len(suggestions) :
          /\ suggestions[i].column # suggestions[j].column
          /\ ~IsDuplicateProposal(suggestions[i])
          /\ ~IsDuplicateProposal(suggestions[j])
    /\ IsDuplicateProposal(suggestions[Len(suggestions)])

-----------------------------------------------------------------------------
(***************************************************************************)
(*     profile and _perform_dbscan (preprocessing_agent.py lines 48-237)   *)
(***************************************************************************)
\* profile has returned for a frame that is not None
Profiled == profPc = "profiled" /\ ~prof_df.isNone

\* C18: profile of an empty dataset (no rows, or no columns) returns a
\* report and not None, without raising; the report has rows, columns and
\* duplicates 0, empty dicts of data types, missing values and cardinality,
\* and null correlation, skewness and kurtosis.
C18_EmptyDatasetReport ==
    (Profiled /\ (Len(prof_df.rows) = 0 \/ Len(prof_df.columns) = 0)) =>
        /\ ~profile_report.isNone
        /\ profile_report.basic_info.rows = 0
        /\ profile_report.basic_info.columns = 0
        /\ profile_report.basic_info.duplicates = 0
        /\ profile_report.data_types = <<>>
        /\ profile_report.missing_values = <<>>
        /\ profile_report.cardinality = <<>>
        /\ profile_report.correlation_matrix = "None"
        /\ profile_report.skewness = "None"
        /\ profile_report.kurtosis = "None"

\* profile has returned a report for a frame of two columns and no rows
C18_Witness ==
    /\ Profiled
    /\ Len(prof_df.rows) = 0
    /\ Len(prof_df.columns) = 2
    /\ ~profile_report.isNone
    /\ profile_report.basic_info.columns = 0

NullCells(col) == {r \in 1..Len(prof_df.rows) : Column(prof_df, col)[r].kind = "nan"}

\* p hundredths is 100 * count / rows rounded to two decimals: no other
\* count of hundredths is nearer
RoundedPercentage(p, count, rows) ==
    LET diff == p * rows - 10000 * count
    IN  2 * (IF diff < 0 THEN -diff ELSE diff) <= rows

\* C19: for a dataset that is not empty the report has duplicates equal to
\* the number of rows identical to an earlier row, for every column c
\* missing_values[c].count equal to the number of null cells of c and
\* percentage equal to 100 * count / rows rounded to 2 decimals, and
\* cardinality[c] equal to the number of distinct values of c that are not
\* null.  For age [25, null, 30, 25], city [A, B, A, A]: age has count 1 and
\* 25.0 percent, city has cardinality 2, and duplicates is 1.
C19_CountsExact ==
    (Profiled /\ Len(prof_df.rows) > 0 /\ Len(prof_df.columns) > 0) =>
        /\ ~profile_report.isNone
        /\ profile_report.basic_info.duplicates =
              Cardinality({i \in 1..Len(prof_df.rows) :
                  \E j \in 1..(i - 1) : prof_df.rows[j] = prof_df.rows[i]})
        /\ Len(profile_report.missing_values) = Len(prof_df.columns)
        /\ Len(profile_report.cardinality) = Len(prof_df.columns)
        /\ \A i \in 1..Len(prof_df.columns) :
              LET c == prof_df.columns[i]
                  missing == profile_report.missing_values[i]
                  distinct == {Column(prof_df, c)[r] : r \in 1..Len(prof_df.rows) \ NullCells(c)}
              IN  /\ missing.col = c
                  /\ missing.count = Cardinality(NullCells(c))
                  /\ RoundedPercentage(missing.percentage, missing.count, Len(prof_df.rows))
                  /\ profile_report.cardinality[i] = [col |-> c, n |-> Cardinality(distinct)]
        /\ prof_df = ExampleFrame =>
              /\ profile_report.missing_values[1].count = 1
              /\ profile_report.missing_values[1].percentage = 2500
              /\ profile_report.cardinality[2].n = 2
              /\ profile_report.basic_info.duplicates = 1

\* profile has returned the report of the example
C19_Witness ==
    /\ Profiled
    /\ prof_df = ExampleFrame
    /\ profile_report.basic_info.rows = 4
    /\ profile_report.basic_info.duplicates = 1
    /\ profile_report.missing_values[1].percentage = 2500

\* _perform_dbscan has returned
Clustered == profPc = "clustered"

\* the rows of the frame without a missing value
CleanRows == {r \in 1..Len(prof_df.rows) :
                 \A i \in 1..Len(prof_df.columns) : prof_df.rows[r][i].kind # "nan"}

\* C20: for a numeric frame with fewer rows without a missing value than
\* min_samples (5 when the key is absent), _perform_dbscan returns a result
\* with outlier_count 0 and an error string that is not empty; it makes no
\* call of the scaler or of DBSCAN, and it does not raise.
C20_TooFewCleanRows ==
    (Clustered /\ Cardinality(CleanRows) <
         (IF dbscan_params.has_min_samples THEN dbscan_params.min_samples ELSE 5)) =>
        /\ "outlier_count" \in dbscan_results.keys
        /\ dbscan_results.outlier_count = 0
        /\ "error" \in dbscan_results.keys
        /\ dbscan_results.error \notin {NoneStr, ""}
        /\ dbscanOps = <<>>

\* _perform_dbscan has returned for a frame of three rows, one of them
\* with a missing value, and min_samples 5
C20_Witness ==
    /\ Clustered
    /\ Len(prof_df.rows) = 3
    /\ Cardinality(CleanRows) = 2
    /\ dbscan_params.has_min_samples
    /\ dbscan_params.min_samples = 5
    /\ dbscan_results.error = "Not enough non-NaN data points for DBSCAN min_samples."

-----------------------------------------------------------------------------
(***************************************************************************)
(*   The outlier result (preprocessing_agent.py lines 54-59, 199-278)      *)
(***************************************************************************)
\* C21: the outlier result profile places in a report has, whenever its
\* error field is set, the keys outlier_count, outlier_percentage and
\* rows_analyzed, all with the value 0; this on every path (empty dataset,
\* no numeric column, empty numeric frame, too few clean rows, a failure of
\* the scaling or of the clustering, which becomes the error field).
C21_ErrorMeansZeroCounts ==
    (profPc = "profiled" /\ ~profile_report.isNone) =>
        LET result == profile_report.outlier_detection
        IN  ("error" \in result.keys /\ result.error # NoneStr) =>
                /\ {"outlier_count", "outlier_percentage", "rows_analyzed"} \subseteq result.keys
                /\ result.outlier_count = 0
                /\ result.outlier_percentage = 0
                /\ result.rows_analyzed = 0

\* the rows of the frame with at least one missing value
RowsWithMissing == {r \in 1..Len(prof_df.rows) : r \notin CleanRows}

\* C22: every result _perform_dbscan returns for a numeric frame that is not
\* empty, the result for too few clean rows included, has rows_dropped_nan
\* equal to the number of input rows with a missing value; and when error
\* is null, rows_analyzed + rows_dropped_nan is the number of input rows and
\* 0 <= outlier_count <= rows_analyzed.
C22_DroppedRowsRecorded ==
    (Clustered /\ Len(prof_df.rows) > 0 /\ Len(prof_df.columns) > 0) =>
        /\ dbscan_results.rows_dropped_nan = Cardinality(RowsWithMissing)
        /\ dbscan_results.error = NoneStr =>
              /\ dbscan_results.rows_analyzed + dbscan_results.rows_dropped_nan
                    = Len(prof_df.rows)
              /\ 0 <= dbscan_results.outlier_count
              /\ dbscan_results.outlier_count <= dbscan_results.rows_analyzed


-----------------------------------------------------------------------------
(***************************************************************************)
(*   The SQL translation and execution requests (app.py lines 301-415,     *)
(*   790-820; nl_to_sql_agent.py lines 100-174)                            *)
(***************************************************************************)
\* the first generation of a generate_query request produced text that
\* _parse_and_validate_sql rejected
FirstOutputRejected ==
    /\ sqlEndpoint = "generate_query"
    /\ Len(sqlTrace) >= 1
    /\ ~Truthy(sqlTrace[1].llm_error)
    /\ sqlTrace[1].raw # <<>>
    /\ Truthy(sqlTrace[1].error)

\* C23: when the SQL text produced for a question fails validation and
\* retry budget remains, the translation path makes a further generation
\* attempt whose prompt carries the rejected output and the validation
\* error; a failure is reported to the caller only once the retry budget
\* (max_retries further attempts) is used up.
C23_ValidationFailureRetried ==
    (FirstOutputRejected /\ max_retries >= 1 /\ sqlResponse.status = "500") =>
        /\ Len(sqlTrace) = max_retries + 1
        /\ \A i \in 2..Len(sqlTrace) :
               /\ sqlTrace[i].messages.template = "retry"
               /\ sqlTrace[i].messages.previous_query = Strip(sqlTrace[i-1].raw)
               /\ sqlTrace[i].messages.db_error = sqlTrace[i-1].error

\* an execute_query request that has been answered
ExecuteQueryAnswered == sqlEndpoint = "execute_query" /\ sqlPc = "done"

\* the store executions of the request that failed while retry budget
\* remained: execution i is made with attempt = i - 1
FailedWithBudget == {i \in DOMAIN storeTrace : ~storeTrace[i].ok /\ i - 1 < max_retries}

\* the i-th regeneration call was given the SQL and the error text of the
\* i-th store execution
RegeneratedFrom(i) ==
    /\ i \in DOMAIN sqlTrace
    /\ sqlTrace[i].previous_query = storeTrace[i].sql
    /\ sqlTrace[i].db_error = storeTrace[i].error

\* the i-th regeneration call returned a corrected statement
Corrected(i) == ~Truthy(sqlTrace[i].error) /\ sqlTrace[i].sql # <<>>

\* per request the store is executed at most max_retries + 1 times and the
\* generator is called at most max_retries times; a successful execution
\* is the last one
BudgetRespected ==
    sqlEndpoint = "execute_query" =>
        /\ storeCalls = Len(storeTrace)
        /\ storeCalls <= max_retries + 1
        /\ genCalls <= max_retries
        /\ Len(sqlTrace) <= max_retries
        /\ \A i \in DOMAIN storeTrace : storeTrace[i].ok => i = Len(storeTrace)

\* C24 as stated: in execute_query_endpoint every failed store execution
\* made while retry budget remains is followed by exactly one regeneration
\* call whose previous_query is the SQL that just failed and whose db_error
\* is the error text of that execution, and then by an execution of the
\* corrected SQL; the store is executed at most MAX_RETRIES+1 times, the
\* generator at most MAX_RETRIES times, and a success ends the loop.
C24_EveryFailureRegeneratedAndRerun ==
    /\ BudgetRespected
    /\ ExecuteQueryAnswered =>
          /\ Len(sqlTrace) = Cardinality(FailedWithBudget)
          /\ \A i \in FailedWithBudget :
                 /\ RegeneratedFrom(i)
                 /\ i + 1 \in DOMAIN storeTrace
                 /\ storeTrace[i + 1].sql = sqlTrace[i].sql

\* C24 (amended): every failed store execution made while retry budget
\* remains is followed by at most one regeneration call, and by exactly one
\* unless the schema cannot be loaded for the retry (the request is then
\* answered 500); the call is given the SQL that just failed and the error
\* text of that execution; when it returns a corrected statement that
\* statement is executed next, and when it fails or returns nothing the
\* request is answered 500 without a further execution.  The store is
\* executed at most MAX_RETRIES+1 times, the generator is called at most
\* MAX_RETRIES times, and a successful execution ends the loop at once.
C24_FailureRegeneratedWhenPossible ==
    /\ BudgetRespected
    /\ ExecuteQueryAnswered =>
          /\ Len(sqlTrace) <= Cardinality(FailedWithBudget)
          /\ \A i \in FailedWithBudget :
                 IF i \notin DOMAIN sqlTrace
                   THEN /\ i = Len(storeTrace)
                        /\ sqlResponse.status = "500"
                 ELSE /\ RegeneratedFrom(i)
                      /\ sqlTrace[i].messages.template = "retry"
                      /\ IF Corrected(i)
                           THEN /\ i + 1 \in DOMAIN storeTrace
                                /\ storeTrace[i + 1].sql = sqlTrace[i].sql
                           ELSE /\ i = Len(storeTrace)
                                /\ sqlResponse.status = "500"

\* a request whose first execution failed, whose regeneration was given the
\* failed SQL and the error, and whose second execution ran the corrected
\* SQL with success
C24_Witness ==
    /\ ExecuteQueryAnswered
    /\ Len(storeTrace) = 2
    /\ ~storeTrace[1].ok
    /\ storeTrace[2].ok
    /\ Len(sqlTrace) = 1
    /\ RegeneratedFrom(1)
    /\ storeTrace[2].sql = sqlTrace[1].sql
    /\ sqlResponse.status = "200"

-----------------------------------------------------------------------------
(***************************************************************************)
(*   The log of apply_cleaning_steps (cleaning_agent.py lines 193-313)     *)
(***************************************************************************)
\* C25: the log list returned by apply_cleaning_steps has exactly one line
\* per selected action, applied, skipped or failed alike: the number of log
\* lines equals the number of actions given, for every action list.
C25_OneLogLinePerAction ==
    (clnPc = "done" /\ ~df.isNone) => Len(logs) = Len(actions)

-----------------------------------------------------------------------------
(***************************************************************************)
(*   Accepted plot parameters (nl_to_viz_agent.py lines 204-228)           *)
(***************************************************************************)
\* the object was accepted: (params, None) was returned
ParamsAccepted == vpResult.done /\ vpResult.error = NoneMsg

\* the axis columns of the object that are not null
AxisColumnsSet == {k \in {"x_col", "y_col"} : vpParams[k] # NoneStr}

\* C26: every parameter object accepted by _parse_and_validate_json has a
\* plot_type of the supported set, has each non-null x_col, y_col,
\* color_col and size_col among the column names of the schema, a histogram
\* has exactly one axis column and a scatter or line has both x_col and
\* y_col; every violation gives (None, error string).
C26_AcceptedParamsWellFormed ==
    vpResult.done =>
        IF vpResult.error = NoneMsg
          THEN /\ vpResult.params = vpParams
               /\ vpParams.plot_type \in SeqToSet(SUPPORTED_PLOT_TYPES)
               /\ \A k \in {"x_col", "y_col", "color_col", "size_col"} :
                      vpParams[k] # NoneStr => vpParams[k] \in SeqToSet(vpColumns)
               /\ vpParams.plot_type = "histogram" => Cardinality(AxisColumnsSet) = 1
               /\ vpParams.plot_type \in {"scatter", "line"} =>
                      AxisColumnsSet = {"x_col", "y_col"}
          ELSE /\ vpResult.params = NoneParams
               /\ Truthy(vpResult.error)

\* the SQL text is one _parse_and_validate_sql lets through: it begins
\* with SELECT and holds none of the disallowed keywords
PassesValidation(sql_text) ==
    LET checked == ParseAndValidateSql(sql_text)
    IN  ~Truthy(checked.error) /\ checked.sql # <<>>

\* C27: in any sequence of generate_query, execute_query and
\* query_result_csv requests, no SQL text is passed to
\* DatabaseAgent.execute_query unless it has passed _parse_and_validate_sql;
\* in particular the SQL text in the body of an execute_query request is
\* validated before it reaches the store.
C27_OnlyValidatedSqlReachesStore ==
    \A i \in DOMAIN storeTrace : PassesValidation(storeTrace[i].sql)

\* C28: after a successful execute_query request the session's
\* last_generated_sql is the SQL text that was executed with success and
\* last_query_error is absent, so that a following query_result_csv
\* download executes again the statement whose result the user was shown.
C28_SessionHoldsExecutedSql ==
    (ExecuteQueryAnswered /\ sqlResponse.status = "200") =>
        /\ storeTrace # <<>>
        /\ storeTrace[Len(storeTrace)].ok
        /\ session.last_generated_sql = storeTrace[Len(storeTrace)].sql
        /\ ~Truthy(session.last_query_error)

-----------------------------------------------------------------------------
(***************************************************************************)
(*   The working dataset and the database table (app.py lines 514-539,     *)
(*   555-579; database_agent.py lines 121-123)                             *)
(***************************************************************************)
\* the frame the request loaded and the frame the agent returned
LoadedFrame   == IF clnPc = "idle" THEN feat_df ELSE df
ReturnedFrame == IF clnPc = "idle" THEN engineered_df ELSE cleaned_df

\* C29: after an apply_cleaning or apply_features request, whatever its
\* outcome (success, the database reload failing, the result being an empty
\* dataset), the working dataset stored for the session and the session's
\* database table hold the same data: both reflect the applied actions or
\* both are unchanged.
C29_WorkingAndTableAgree ==
    epPc = "answered" =>
        \/ stored_working = ReturnedFrame /\ db_table = ReturnedFrame
        \/ stored_working = LoadedFrame /\ db_table = LoadedFrame

-----------------------------------------------------------------------------
(***************************************************************************)
(*   apply_features and the columns it is given                            *)
(*   (feature_engineering_agent.py lines 159-204, 261-270)                 *)
(***************************************************************************)
\* column c of the input is in the result with the values and the dtype it
\* had
ColumnKept(c) ==
    /\ HasColumn(engineered_df, c)
    /\ Column(engineered_df, c) = Column(feat_df, c)
    /\ KindOf(engineered_df, c) = KindOf(feat_df, c)

\* the log lines written for the features named name_
LinesFor(name_) == {k \in 1..Len(feat_logs) : feat_logs[k].name = name_}

\* C30: apply_features only adds columns: every column of the input is in
\* the result with unchanged values and type, a feature whose name is that
\* of an existing column is skipped with a warning line and overwrites
\* nothing, and a feature whose creation failed leaves no column behind.
C30_OnlyAddsColumns ==
    (featPc = "done" /\ ~feat_df.isNone) =>
        /\ Len(engineered_df.rows) = Len(feat_df.rows)
        /\ \A c \in SeqToSet(feat_df.columns) : ColumnKept(c)
        /\ \A i \in 1..Len(selected_features) :
               LET name_ == Get(selected_features[i].name)
               IN  /\ HasColumn(feat_df, name_) =>
                       \E k \in LinesFor(name_) :
                           feat_logs[k].msg = "Warning: Skipping feature: Column already exists."
                   /\ (\A k \in LinesFor(name_) :
                           feat_logs[k].msg = "Error: Failed to apply feature") =>
                       ~HasColumn(engineered_df, name_) \/ LinesFor(name_) = {}
=============================================================================
